---- MODULE Spec2Model ----
(***************************************************************************)
(* A model of the elastix kernel: ElastixMain (dispatch resolution,        *)
(* component creation, the call of the aggregate component) and            *)
(* ElastixTemplate (the staged execution of a registration run).           *)
(***************************************************************************)
EXTENDS Integers, Sequences, FiniteSets, TLC

VARIABLES
  env,         \* the Configuration's command line arguments and image-type entries, and the image headers
  config,      \* the Configuration's component names: role -> instance index -> name ("" = not declared)
  cdb,         \* the ComponentDatabase: index map and creators
  em,          \* the members of ElastixMain and the position inside ElastixMain::Run
  containers,  \* the component containers of the aggregate component (ElastixBase)
  et,          \* the members of ElastixTemplate and the position inside ElastixTemplate::Run
  h,           \* the stage handler being executed (BeforeAll, BeforeRegistration, ...)
  reg,         \* the registration component's multi-resolution loop
  g            \* history of the run: calls of the current fan-out, stage counters

vars == <<env, config, cdb, em, containers, et, h, reg, g>>

-----------------------------------------------------------------------------
(* Bounds of the model. *)

\* Instance names the configuration can declare per role (indices 0..MaxInst-1).
MaxInst == 2
\* Resolution levels of the registration component.
MaxLevels == 2
\* Optimizer steps per resolution level.
MaxIter == 2
\* Largest value a BeforeAll handler returns.
MaxRet == 2
\* Calls of ElastixMain::Run on one ElastixMain object.
MaxRuns == 2
\* Threads that call ElastixMain::GetComponentDatabase.
MaxThreads == 2
\* Parameter maps given to ElastixMain::EnterCommandLineArguments.
MaxMaps == 3

-----------------------------------------------------------------------------
(* Values. *)

NoName == ""
NotFound == "NotFound"
NoCreator == "NoCreator"
NoLabel == <<"", 0>>
\* A null object pointer.
NullObject == [name |-> "", label |-> NoLabel, elx |-> FALSE]

Kinds == <<"FixedImage", "MovingImage", "FixedMask", "MovingMask">>
KindSet == {Kinds[i] : i \in 1..Len(Kinds)}

\* The roles, in the order in which ElastixMain::Run creates their containers.
CreationOrder ==
  <<"Registration", "FixedImagePyramid", "MovingImagePyramid", "ImageSampler",
    "Interpolator", "Metric", "Optimizer", "ResampleInterpolator", "Resampler",
    "Transform">>

Roles == {CreationOrder[i] : i \in 1..Len(CreationOrder)}

\* The default component name ElastixMain::Run passes for a role ("" = no default).
DefaultName(role) ==
  CASE role = "Registration" -> "MultiResolutionRegistration"
    [] role = "FixedImagePyramid" -> "FixedSmoothingImagePyramid"
    [] role = "MovingImagePyramid" -> "MovingSmoothingImagePyramid"
    [] role = "ImageSampler" -> ""
    [] role = "Interpolator" -> "BSplineInterpolator"
    [] role = "Metric" -> ""
    [] role = "Optimizer" -> ""
    [] role = "ResampleInterpolator" -> "FinalBSplineInterpolator"
    [] role = "Resampler" -> "DefaultResampler"
    [] role = "Transform" -> ""

\* The mandatoryComponent flag ElastixMain::Run passes for a role.
Mandatory(role) == role # "ImageSampler"

DefaultNames == {DefaultName(r) : r \in Roles} \ {NoName}

\* Names a configuration declares: one with a creator, one without.
CfgNames == {"Known", "Unknown"}

\* returndummy = value instead of returndummy |= value.
LastValue(a, b) == b

RECURSIVE BitOr(_, _)
\* a | b on non-negative ints.
BitOr(a, b) ==
  IF a = 0 THEN b
  ELSE IF b = 0 THEN a
  ELSE (IF a % 2 = 1 \/ b % 2 = 1 THEN 1 ELSE 0) + 2 * BitOr(a \div 2, b \div 2)

-----------------------------------------------------------------------------
(* ComponentDatabase (the registry). *)

\* The image types installed by the component loader, with their index.
SupportedImageTypes ==
  { <<"float", 2, "float", 2, 1>>, <<"float", 3, "float", 3, 2>> }

AllNames == DefaultNames \cup {"Elastix", "Known"}

\* Every creator the loader installs: each name for each installed index.
AllCreators == { <<n, t[5]>> : n \in AllNames, t \in SupportedImageTypes }

\* ComponentDatabase::GetIndex: the index of the image types, 0 when not installed.
GetIndex(db, fpix, fdim, mpix, mdim) ==
  LET hit == { t \in db.index : t[1] = fpix /\ t[2] = fdim /\ t[3] = mpix /\ t[4] = mdim }
  IN IF hit = {} THEN 0 ELSE (CHOOSE t \in hit : TRUE)[5]

\* ComponentDatabase::GetCreator: the creator of (name, index), null when there is none.
GetCreator(db, name, index) ==
  IF <<name, index>> \in db.creators THEN name ELSE NoCreator

\* Calling a creator: a fresh component, or null.
CallCreator(db, creator) ==
  IF creator \in db.nullCreators THEN NullObject
  ELSE [name |-> creator, label |-> NoLabel, elx |-> FALSE]

-----------------------------------------------------------------------------
(* Configuration. *)

\* Configuration::ReadParameter(componentName, key, componentnr, ...): found?
ReadFound(cfg, key, nr) == nr \in DOMAIN cfg[key] /\ cfg[key][nr] # NoName

\* Configuration::ReadParameter: the value left in componentName.
ReadName(cfg, key, nr, current) ==
  IF ReadFound(cfg, key, nr) THEN cfg[key][nr] ELSE current

-----------------------------------------------------------------------------
(* ElastixMain::InitDBIndex *)

\* The dimension step of InitDBIndex, for the fixed or the moving image:
\* [ret, dim] where ret = 1 is an early "return 1" and dim the member afterwards.
\* header = [ok, dim] is the outcome of GetImageInformationFromFile (ok = FALSE: it
\* raises), par = [found, value] the dimension entry of the parameter file.
ResolveDimension(cur, library, arg, arg0, header, par) ==
  IF cur # 0 THEN [ret |-> 0, dim |-> cur]
  ELSE IF ~library
  THEN LET fileName == IF arg # "" THEN arg ELSE arg0
       IN IF fileName = "" THEN [ret |-> 1, dim |-> cur]
          ELSE IF ~header.ok THEN [ret |-> 1, dim |-> cur]
          ELSE IF par.found /\ par.value # header.dim THEN [ret |-> 1, dim |-> header.dim]
          ELSE IF header.dim = 0 THEN [ret |-> 1, dim |-> header.dim]
          ELSE [ret |-> 0, dim |-> header.dim]
  ELSE LET d == IF par.found THEN par.value ELSE cur
       IN IF d = 0 THEN [ret |-> 1, dim |-> d] ELSE [ret |-> 0, dim |-> d]

\* The pixel type step: "float" unless the member is set or the parameter file names one.
ResolvePixelType(cur, par) ==
  IF cur # "" THEN cur ELSE IF par # NotFound THEN par ELSE "float"

\* InitDBIndex: the members afterwards and the returned value.
InitDBIndex(m, e, db) ==
  IF ~e.initialized THEN [m EXCEPT !.errorCode = 1]
  ELSE
    LET fpix == ResolvePixelType(m.fixedPix, e.parFixedPix)
        f == ResolveDimension(m.fixedDim, e.library, e.argF, e.argF0, e.fixedHeader, e.parFixedDim)
        m1 == [m EXCEPT !.fixedPix = fpix, !.fixedDim = f.dim]
    IN IF f.ret # 0 THEN [m1 EXCEPT !.errorCode = 1]
       ELSE
         LET mpix == ResolvePixelType(m.movingPix, e.parMovingPix)
             v == ResolveDimension(m.movingDim, e.library, e.argM, e.argM0, e.movingHeader, e.parMovingDim)
             m2 == [m1 EXCEPT !.movingPix = mpix, !.movingDim = v.dim]
         IN IF v.ret # 0 THEN [m2 EXCEPT !.errorCode = 1]
            ELSE
              LET idx == GetIndex(db, fpix, f.dim, mpix, v.dim)
              IN [m2 EXCEPT !.dbIndex = idx, !.errorCode = IF idx = 0 THEN 1 ELSE 0]

-----------------------------------------------------------------------------
(* ElastixMain::CreateComponent and ElastixMain::CreateComponents *)

\* CreateComponent returning whatever it got, without the check for null.
CreateComponentUnchecked(db, index, name) ==
  LET creator == GetCreator(db, name, index)
      component == IF creator = NoCreator THEN NullObject ELSE CallCreator(db, creator)
  IN [ok |-> TRUE, comp |-> component]

\* CreateComponent with the check for null inverted.
CreateComponentInverted(db, index, name) ==
  LET creator == GetCreator(db, name, index)
      component == IF creator = NoCreator THEN NullObject ELSE CallCreator(db, creator)
  IN IF component # NullObject
     THEN [ok |-> FALSE, comp |-> NullObject]
     ELSE [ok |-> TRUE, comp |-> component]

\* CreateComponent(name): [ok, comp]; ok = FALSE is the raised exception.
CreateComponent(db, index, name) ==
  LET creator == GetCreator(db, name, index)
      component == IF creator = NoCreator THEN NullObject ELSE CallCreator(db, creator)
  IN IF component = NullObject
     THEN [ok |-> FALSE, comp |-> NullObject]
     ELSE [ok |-> TRUE, comp |-> component]

RECURSIVE CreateMoreAcrossGaps(_, _, _, _, _, _, _)
\* The loop going on to the next instance index when an index has no name.
CreateMoreAcrossGaps(cfg, db, index, key, componentnr, r, componentName) ==
  LET nr == componentnr + 1
      found == ReadFound(cfg, key, nr)
      name == ReadName(cfg, key, nr, componentName)
      r1 == [r EXCEPT !.probes = Append(@, nr)]
      r2 == [r1 EXCEPT !.attempts = @ + 1]
  IN IF ~found
     THEN IF nr \in DOMAIN cfg[key]
          THEN CreateMoreAcrossGaps(cfg, db, index, key, nr, r1, name)
          ELSE r1
     ELSE LET c == CreateComponent(db, index, name)
          IN IF ~c.ok THEN [r2 EXCEPT !.errorcode = 1, !.error = TRUE]
             ELSE CreateMoreAcrossGaps(cfg, db, index, key, nr,
                                       [r2 EXCEPT !.container = Append(@, c.comp)], name)

RECURSIVE CreateMoreSkippingFailed(_, _, _, _, _, _, _)
\* The loop going on to the next instance index after a creation has failed.
CreateMoreSkippingFailed(cfg, db, index, key, componentnr, r, componentName) ==
  LET nr == componentnr + 1
      found == ReadFound(cfg, key, nr)
      name == ReadName(cfg, key, nr, componentName)
      r1 == [r EXCEPT !.probes = Append(@, nr)]
      r2 == [r1 EXCEPT !.attempts = @ + 1]
  IN IF ~found THEN r1
     ELSE LET c == CreateComponent(db, index, name)
          IN IF ~c.ok THEN CreateMoreSkippingFailed(cfg, db, index, key, nr, r2, name)
             ELSE CreateMoreSkippingFailed(cfg, db, index, key, nr,
                                           [r2 EXCEPT !.container = Append(@, c.comp)], name)

RECURSIVE CreateMore(_, _, _, _, _, _, _)
\* The while (found) loop of CreateComponents, entered with found = TRUE.
CreateMore(cfg, db, index, key, componentnr, r, componentName) ==
  LET nr == componentnr + 1
      found == ReadFound(cfg, key, nr)
      name == ReadName(cfg, key, nr, componentName)
      r1 == [r EXCEPT !.probes = Append(@, nr)]
      r2 == [r1 EXCEPT !.attempts = @ + 1]
  IN IF ~found THEN r1
     ELSE LET c == CreateComponent(db, index, name)
          IN IF ~c.ok THEN [r2 EXCEPT !.errorcode = 1, !.error = TRUE]
             ELSE CreateMore(cfg, db, index, key, nr,
                             [r2 EXCEPT !.container = Append(@, c.comp)], name)

\* CreateComponents entering the loop over the further instance indices also
\* when the name of instance 0 was not found and the default was used.
CreateComponentsProbingOn(cfg, db, index, key, defaultComponentName, errorcode, mandatoryComponent) ==
  LET found == ReadFound(cfg, key, 0)
      componentName == ReadName(cfg, key, 0, defaultComponentName)
      r0 == [container |-> <<>>, errorcode |-> errorcode, error |-> FALSE,
             probes |-> <<0>>, attempts |-> 0]
      r1 == [r0 EXCEPT !.attempts = 1]
  IN IF ~found /\ defaultComponentName = NoName
     THEN IF mandatoryComponent
          THEN [r0 EXCEPT !.errorcode = 1, !.error = TRUE]
          ELSE [r0 EXCEPT !.errorcode = 0]
     ELSE LET c == CreateComponent(db, index, componentName)
          IN IF ~c.ok THEN [r1 EXCEPT !.errorcode = 1, !.error = TRUE]
             ELSE CreateMore(cfg, db, index, key, 0,
                             [r1 EXCEPT !.container = <<c.comp>>], componentName)

\* CreateComponents with the mandatoryComponent flag ignored: a role with no
\* name and no default always yields an empty container without an error.
CreateComponentsIgnoringMandatory(cfg, db, index, key, defaultComponentName, errorcode, mandatoryComponent) ==
  LET found == ReadFound(cfg, key, 0)
      componentName == ReadName(cfg, key, 0, defaultComponentName)
      r0 == [container |-> <<>>, errorcode |-> errorcode, error |-> FALSE,
             probes |-> <<0>>, attempts |-> 0]
      r1 == [r0 EXCEPT !.attempts = 1]
  IN IF ~found /\ defaultComponentName = NoName
     THEN [r0 EXCEPT !.errorcode = 0]
     ELSE LET c == CreateComponent(db, index, componentName)
          IN IF ~c.ok THEN [r1 EXCEPT !.errorcode = 1, !.error = TRUE]
             ELSE IF found
                  THEN CreateMore(cfg, db, index, key, 0,
                                  [r1 EXCEPT !.container = <<c.comp>>], componentName)
                  ELSE [r1 EXCEPT !.container = <<c.comp>>]

\* The errorcode written in the branch "not found, no default, not mandatory".
OptionalAbsentErrorCode(errorcode) == 0

\* CreateComponents(key, defaultComponentName, errorcode, mandatoryComponent):
\* [container, errorcode, error, probes, attempts]: the returned container, the
\* caller's errorcode afterwards, whether an error was reported, the instance
\* indices read from the configuration and the number of CreateComponent calls.
CreateComponents(cfg, db, index, key, defaultComponentName, errorcode, mandatoryComponent) ==
  LET found == ReadFound(cfg, key, 0)
      componentName == ReadName(cfg, key, 0, defaultComponentName)
      r0 == [container |-> <<>>, errorcode |-> errorcode, error |-> FALSE,
             probes |-> <<0>>, attempts |-> 0]
      r1 == [r0 EXCEPT !.attempts = 1]
  IN IF ~found /\ defaultComponentName = NoName
     THEN IF mandatoryComponent
          THEN [r0 EXCEPT !.errorcode = 1, !.error = TRUE]
          ELSE [r0 EXCEPT !.errorcode = OptionalAbsentErrorCode(errorcode)]
     ELSE LET c == CreateComponent(db, index, componentName)
          IN IF ~c.ok THEN [r1 EXCEPT !.errorcode = 1, !.error = TRUE]
             ELSE IF found
                  THEN CreateMore(cfg, db, index, key, 0,
                                  [r1 EXCEPT !.container = <<c.comp>>], componentName)
                  ELSE [r1 EXCEPT !.container = <<c.comp>>]

-----------------------------------------------------------------------------
(* ElastixTemplate: the component fan-out and the wiring of the components. *)

\* The calls of a loop that stops after component 0 of the role.
RoleCallsFirstOnly(cont, role) == [i \in 1..(IF Len(cont[role]) > 0 THEN 1 ELSE 0) |-> <<role, i - 1>>]

\* The calls "for i < GetNumberOf<role>s(): handler of component i of role".
RoleCalls(cont, role) == [i \in 1..Len(cont[role]) |-> <<role, i - 1>>]

\* CallInEachComponent with the Transform and ImageSampler loops exchanged.
CallInEachComponentSwapped(cont) ==
  <<<<"Configuration", 0>>>>
    \o RoleCalls(cont, "Registration")
    \o RoleCalls(cont, "ImageSampler")
    \o RoleCalls(cont, "Transform")
    \o RoleCalls(cont, "Metric")
    \o RoleCalls(cont, "Interpolator")
    \o RoleCalls(cont, "Optimizer")
    \o RoleCalls(cont, "FixedImagePyramid")
    \o RoleCalls(cont, "MovingImagePyramid")
    \o RoleCalls(cont, "ResampleInterpolator")
    \o RoleCalls(cont, "Resampler")

\* CallInEachComponent(func): the components on which func is called, in call order.
CallInEachComponent(cont) ==
  <<<<"Configuration", 0>>>>
    \o RoleCalls(cont, "Registration")
    \o RoleCalls(cont, "Transform")
    \o RoleCalls(cont, "ImageSampler")
    \o RoleCalls(cont, "Metric")
    \o RoleCalls(cont, "Interpolator")
    \o RoleCalls(cont, "Optimizer")
    \o RoleCalls(cont, "FixedImagePyramid")
    \o RoleCalls(cont, "MovingImagePyramid")
    \o RoleCalls(cont, "ResampleInterpolator")
    \o RoleCalls(cont, "Resampler")

\* CallInEachComponentInt(func): the same traversal, for the handlers that return an int.
CallInEachComponentInt(cont) ==
  <<<<"Configuration", 0>>>>
    \o RoleCalls(cont, "Registration")
    \o RoleCalls(cont, "Transform")
    \o RoleCalls(cont, "ImageSampler")
    \o RoleCalls(cont, "Metric")
    \o RoleCalls(cont, "Interpolator")
    \o RoleCalls(cont, "Optimizer")
    \o RoleCalls(cont, "FixedImagePyramid")
    \o RoleCalls(cont, "MovingImagePyramid")
    \o RoleCalls(cont, "ResampleInterpolator")
    \o RoleCalls(cont, "Resampler")

\* The traversal used by the fan-outs of handler fn.
FanOrder(fn, cont) ==
  IF fn = "BeforeAll" THEN CallInEachComponentInt(cont) ELSE CallInEachComponent(cont)

\* ConfigureComponents with the instances of a role counted from 1.
ConfigureComponentsFromOne(cont, This) ==
  [r \in Roles |->
     [i \in 1..Len(cont[r]) |-> [cont[r][i] EXCEPT !.label = <<r, i>>, !.elx = This]]]

\* ConfigureComponents(This): every component gets its label (role, i) and the
\* back-reference This (TRUE = this ElastixTemplate, FALSE = 0).
ConfigureComponents(cont, This) ==
  [r \in Roles |->
     [i \in 1..Len(cont[r]) |-> [cont[r][i] EXCEPT !.label = <<r, i - 1>>, !.elx = This]]]

\* The observers with the two optimizer events exchanged.
RunObserversSwapped ==
  << [subject |-> <<"Registration", 0>>, event |-> "IterationEvent", cmd |-> "BeforeEachResolution"],
     [subject |-> <<"Optimizer", 0>>, event |-> "EndEvent", cmd |-> "AfterEachIteration"],
     [subject |-> <<"Optimizer", 0>>, event |-> "IterationEvent", cmd |-> "AfterEachResolution"] >>

\* The observers added to the last Registration and Optimizer instead of the first.
RunObserversOnLastInstance ==
  << [subject |-> <<"Registration", Len(containers["Registration"]) - 1>>, event |-> "IterationEvent", cmd |-> "BeforeEachResolution"],
     [subject |-> <<"Optimizer", Len(containers["Optimizer"]) - 1>>, event |-> "IterationEvent", cmd |-> "AfterEachIteration"],
     [subject |-> <<"Optimizer", Len(containers["Optimizer"]) - 1>>, event |-> "EndEvent", cmd |-> "AfterEachResolution"] >>

\* The observers ElastixTemplate::Run adds, in the order of the AddObserver calls.
RunObservers ==
  << [subject |-> <<"Registration", 0>>, event |-> "IterationEvent", cmd |-> "BeforeEachResolution"],
     [subject |-> <<"Optimizer", 0>>, event |-> "IterationEvent", cmd |-> "AfterEachIteration"],
     [subject |-> <<"Optimizer", 0>>, event |-> "EndEvent", cmd |-> "AfterEachResolution"] >>

\* itk::Object::InvokeEvent: the commands of the observers of (subject, event), in order.
InvokeEvent(observers, subject, event) ==
  LET hit == SelectSeq(observers, LAMBDA o : o.subject = subject /\ o.event = event)
  IN [i \in 1..Len(hit) |-> hit[i].cmd]

\* Run going on whatever BeforeAll returned.
BeforeAllNeverStopsRun(dummy) == FALSE

\* if ( dummy != 0 ) return dummy;
BeforeAllStopsRun(dummy) == dummy # 0

\* Run calling BeforeRegistration before the images and masks are read.
AfterWirePcSkippingLoad == "BeforeRegistration"

\* The step ElastixTemplate::Run executes after BeforeAll returned 0 and the
\* observers are added: reading the images and masks.
AfterWirePc == "Load"

\* BeforeEachResolution leaving m_IterationCounter as it is.
KeepIterationCounter(counter) == counter

\* this->m_IterationCounter = 0 in BeforeEachResolution.
ResetIterationCounter(counter) == 0

-----------------------------------------------------------------------------
(* Initial states. *)

NoFile == <<"", 0, 0>>
NoCreate == [key |-> "", default |-> "", mandatory |-> FALSE, found |-> FALSE,
             errIn |-> 0, errOut |-> 0, error |-> FALSE, size |-> 0, attempts |-> 0,
             probes |-> <<>>]
\* No call of CreateComponent made by ElastixMain::Run itself yet.
NoComponent == [name |-> "", index |-> 0, ok |-> FALSE, comp |-> NullObject]

EmInit ==
  [pc |-> "Idle", errorCode |-> 0, ret |-> 0, fixedPix |-> "", fixedDim |-> 0,
   movingPix |-> "", movingDim |-> 0, dbIndex |-> 0, elastix |-> FALSE,
   createIdx |-> 0, finalTransform |-> NoLabel, supplied |-> {}]

EtInit ==
  [pc |-> "None", iterationCounter |-> 0, observers |-> <<>>, finalTransform |-> NoLabel,
   images |-> [k \in KindSet |-> "absent"], dummy |-> 0, currentFile |-> NoFile]

HInit == [fn |-> "None", phase |-> "None", level |-> 0, ret |-> 0]

\* No event was invoked yet.
NoEvent == [subject |-> NoLabel, event |-> ""]

RegInit ==
  [pc |-> "Idle", level |-> 0, levels |-> 0, steps |-> 0, todo |-> <<>>, event |-> NoEvent]

\* No behaviour of the components is prescribed.
NoScript == [fault |-> 0, baAt |-> 0, baVal |-> 0, loadFault |-> 0, levels |-> 0, iters |-> 0]

\* No earlier run is on record.
NoFirst ==
  [pc |-> "", ret |-> 0, finalTransform |-> NoLabel, trace |-> <<>>, undefined |-> FALSE,
   initDB |-> "none"]

GInit ==
  [calls |-> <<>>, cnt |-> 0, stage |-> "None", nBER |-> 0, nAER |-> 0, nAEI |-> 0,
   before |-> 0, loads |-> {}, failed |-> {}, lastCreate |-> NoCreate,
   ranElastix |-> FALSE, runs |-> 1, initDB |-> "none", lastComponent |-> NoComponent,
   tracing |-> FALSE, trace |-> <<>>, script |-> NoScript, first |-> NoFirst,
   rets |-> {}, finals |-> 0]

NoPar == [found |-> FALSE, value |-> 0]

\* elastix.exe started with -f and -m naming two 2D images and a parameter file
\* without image type entries.
BaseEnv ==
  [initialized |-> TRUE, library |-> FALSE,
   argF |-> "fixed.mhd", argF0 |-> "", argM |-> "moving.mhd", argM0 |-> "",
   fixedHeader |-> [ok |-> TRUE, dim |-> 2], movingHeader |-> [ok |-> TRUE, dim |-> 2],
   parFixedDim |-> NoPar, parMovingDim |-> NoPar,
   parFixedPix |-> NotFound, parMovingPix |-> NotFound,
   writeEachIteration |-> FALSE, writeEachResolution |-> FALSE]

EnvMain ==
  { BaseEnv,
    [BaseEnv EXCEPT !.initialized = FALSE],
    [BaseEnv EXCEPT !.argF = ""],
    [BaseEnv EXCEPT !.argF = "", !.argF0 = "fixed0.mhd"],
    [BaseEnv EXCEPT !.fixedHeader = [ok |-> FALSE, dim |-> 0]],
    [BaseEnv EXCEPT !.parFixedDim = [found |-> TRUE, value |-> 3]],
    [BaseEnv EXCEPT !.movingHeader = [ok |-> TRUE, dim |-> 3]],
    [BaseEnv EXCEPT !.argM = ""],
    [BaseEnv EXCEPT !.library = TRUE],
    [BaseEnv EXCEPT !.library = TRUE,
                    !.parFixedDim = [found |-> TRUE, value |-> 3],
                    !.parMovingDim = [found |-> TRUE, value |-> 3]],
    [BaseEnv EXCEPT !.writeEachIteration = TRUE],
    [BaseEnv EXCEPT !.writeEachResolution = TRUE] }

FullDb == [index |-> SupportedImageTypes, creators |-> AllCreators, nullCreators |-> {}]

DbMain ==
  { FullDb,
    [FullDb EXCEPT !.creators = { c \in AllCreators : c[1] # "Elastix" }] }

\* The declarations of one role: k names with a creator at the indices 0..k-1,
\* possibly followed by one name without a creator; nothing after it.
RoleForm(k, bad) ==
  [i \in 0..(MaxInst - 1) |->
     IF i < k THEN "Known" ELSE IF bad /\ i = k THEN "Unknown" ELSE NoName]

RoleForms == { RoleForm(k, bad) : k \in 0..MaxInst, bad \in BOOLEAN }

\* Every role without a default names one component; the others use their default.
BaseConfig ==
  [r \in Roles |-> IF DefaultName(r) = NoName THEN RoleForm(1, FALSE) ELSE RoleForm(0, FALSE)]

\* The configurations of the initial states: any declaration of the ImageSampler,
\* together with any declaration of one other role.
ConfigsMain ==
  { [BaseConfig EXCEPT !["ImageSampler"] = s, ![r] = f] :
      s \in RoleForms, r \in Roles \ {"ImageSampler"}, f \in RoleForms }

SuppliedMain == SUBSET KindSet

Scenarios ==
  { [env |-> e, config |-> BaseConfig, db |-> FullDb, supplied |-> {}] : e \in EnvMain }
  \cup { [env |-> BaseEnv, config |-> c, db |-> FullDb, supplied |-> {}] : c \in ConfigsMain }
  \cup { [env |-> BaseEnv, config |-> BaseConfig, db |-> d, supplied |-> {}] : d \in DbMain }
  \cup { [env |-> BaseEnv, config |-> BaseConfig, db |-> FullDb, supplied |-> u] : u \in SuppliedMain }

Init ==
  \E s \in Scenarios :
    /\ env = s.env
    /\ config = s.config
    /\ cdb = s.db
    /\ em = [EmInit EXCEPT !.supplied = s.supplied]
    /\ containers = [r \in Roles |-> <<>>]
    /\ et = EtInit
    /\ h = HInit
    /\ reg = RegInit
    /\ g = GInit

-----------------------------------------------------------------------------
(* ElastixMain::Run *)

\* Run going on to create the components whatever InitDBIndex returned.
MainInitDBIndexUnchecked ==
  /\ em.pc = "Idle"
  /\ LET m == InitDBIndex(em, env, cdb)
     IN /\ em' = [m EXCEPT !.pc = "CreateElastix"]
        /\ g' = [g EXCEPT !.initDB = IF m.errorCode # 0 THEN "failed" ELSE "ok"]
  /\ UNCHANGED <<env, config, cdb, containers, et, h, reg>>

\* errorCode = InitDBIndex(); if (errorCode != 0) return errorCode;
MainInitDBIndex ==
  /\ em.pc = "Idle"
  /\ LET m == InitDBIndex(em, env, cdb)
     IN /\ em' = IF m.errorCode # 0
                 THEN [m EXCEPT !.pc = "Returned", !.ret = m.errorCode]
                 ELSE [m EXCEPT !.pc = "CreateElastix"]
        /\ g' = [g EXCEPT !.initDB = IF m.errorCode # 0 THEN "failed" ELSE "ok"]
  /\ UNCHANGED <<env, config, cdb, containers, et, h, reg>>

\* m_Elastix = CreateComponent("Elastix"); an exception ends the run with 1.
\* The containers of a new aggregate component are empty.
MainCreateElastix ==
  /\ em.pc = "CreateElastix"
  /\ LET c == CreateComponent(cdb, em.dbIndex, "Elastix")
     IN /\ em' = IF c.ok
                 THEN [em EXCEPT !.pc = "CreateComponents", !.elastix = TRUE, !.createIdx = 1]
                 ELSE [em EXCEPT !.pc = "Returned", !.errorCode = 1, !.ret = 1]
        /\ containers' = IF c.ok THEN [r \in Roles |-> <<>>] ELSE containers
        /\ g' = [g EXCEPT !.lastComponent =
                            [name |-> "Elastix", index |-> em.dbIndex,
                             ok |-> c.ok, comp |-> c.comp]]
  /\ UNCHANGED <<env, config, cdb, et, h, reg>>

\* elastixBase.Set<role>Container(CreateComponents(<role>, <default>, errorCode[, false])),
\* one call per step, in the order of CreationOrder.
MainCreateComponents ==
  /\ em.pc = "CreateComponents"
  /\ em.createIdx <= Len(CreationOrder)
  /\ LET role == CreationOrder[em.createIdx]
         r == CreateComponents(config, cdb, em.dbIndex, role, DefaultName(role),
                               em.errorCode, Mandatory(role))
     IN /\ containers' = [containers EXCEPT ![role] = r.container]
        /\ em' = [em EXCEPT !.errorCode = r.errorcode,
                            !.createIdx = @ + 1,
                            !.pc = IF em.createIdx = Len(CreationOrder)
                                   THEN "CheckComponents" ELSE "CreateComponents"]
        /\ g' = [g EXCEPT !.failed = IF r.error THEN @ \cup {role} ELSE @,
                          !.lastCreate =
                            [key |-> role, default |-> DefaultName(role),
                             mandatory |-> Mandatory(role),
                             found |-> config[role][0] # NoName,
                             errIn |-> em.errorCode, errOut |-> r.errorcode,
                             error |-> r.error, size |-> Len(r.container),
                             attempts |-> r.attempts, probes |-> r.probes]]
  /\ UNCHANGED <<env, config, cdb, et, h, reg>>

\* if (errorCode != 0) return 1; otherwise the images, masks and the initial
\* transform are handed to the aggregate component and its Run() is called.
MainCheckComponents ==
  /\ em.pc = "CheckComponents"
  /\ IF em.errorCode # 0
     THEN /\ em' = [em EXCEPT !.pc = "Returned", !.ret = 1]
          /\ UNCHANGED <<et, g>>
     ELSE /\ em' = [em EXCEPT !.pc = "InRun"]
          /\ et' = [et EXCEPT !.pc = "Configure",
                              !.images = [k \in KindSet |->
                                            IF k \in em.supplied THEN "supplied" ELSE "absent"]]
          /\ g' = [g EXCEPT !.ranElastix = TRUE]
  /\ UNCHANGED <<env, config, cdb, containers, h, reg>>

\* After the try/catch around elastixBase.Run(): m_FinalTransform is fetched
\* and errorCode is returned.
MainAfterRun ==
  /\ em.pc = "AfterRun"
  /\ em' = [em EXCEPT !.pc = "Returned", !.ret = em.errorCode,
                      !.finalTransform = et.finalTransform]
  /\ UNCHANGED <<env, config, cdb, containers, et, h, reg, g>>

-----------------------------------------------------------------------------
(* ElastixTemplate::Run and the stage handlers. *)

\* An exception leaves ElastixTemplate::Run; ElastixMain::Run catches it: errorCode = 1.
\* The exception is caught and the error code is left as it was.
RaisedEmSwallowed == [em EXCEPT !.pc = "AfterRun", !.errorCode = 0]

RaisedEm == [em EXCEPT !.pc = "AfterRun", !.errorCode = 1]
RaisedEt == [et EXCEPT !.pc = "Raised"]
RaisedH == [h EXCEPT !.phase = "Raised"]

\* A handler is entered: its own <stage>Base() is called next.
EnteredH(fn, level) == [fn |-> fn, phase |-> "Own", level |-> level, ret |-> 0]
EnteredG(fn) == [g EXCEPT !.calls = <<>>, !.cnt = 0, !.stage = fn, !.rets = {}]
IdleH == [fn |-> "None", phase |-> "None", level |-> 0, ret |-> 0]

\* Both fan-outs of the handler have returned.
FanOutsDone ==
  /\ h.phase = "Fan"
  /\ Len(g.calls) = Len(FanOrder(h.fn, containers))

\* The invocation of a stage handler is put on record, in the runs that keep
\* the record: <<stage, part, role, instance, level, iteration counter>>.
Traced(gg, part, target) ==
  IF gg.tracing
  THEN [gg EXCEPT !.trace = Append(@, <<h.fn, part, target[1], target[2], h.level,
                                        et.iterationCounter>>)]
  ELSE gg

\* this->ConfigureComponents( this );
RunConfigure ==
  /\ et.pc = "Configure"
  /\ containers' = ConfigureComponents(containers, TRUE)
  /\ et' = [et EXCEPT !.pc = "BeforeAll"]
  /\ UNCHANGED <<env, config, cdb, em, h, reg, g>>

\* The handler going from its own <stage>Base() straight to the fan-out of the
\* <stage> handlers.
OwnBaseThenHandlers ==
  /\ h.phase = "Own"
  /\ \/ /\ \E v \in 0..MaxRet :
             /\ h' = [h EXCEPT !.phase = "Fan",
                               !.ret = IF h.fn = "BeforeAll" THEN BitOr(@, v) ELSE @]
             /\ g' = [Traced(g, "Own", <<"ElastixBase", 0>>)
                        EXCEPT !.rets = IF h.fn = "BeforeAll" THEN @ \cup {v} ELSE @]
        /\ UNCHANGED <<em, et>>
     \/ /\ h' = RaisedH /\ em' = RaisedEm /\ et' = RaisedEt
        /\ g' = Traced(g, "Own", <<"ElastixBase", 0>>)
  /\ UNCHANGED <<env, config, cdb, containers, reg>>

\* A handler calls this-><stage>Base(), the handler of the ElastixBase itself.
\* In BeforeAll its value is or-ed into returndummy.
OwnBase ==
  /\ h.phase = "Own"
  /\ \/ /\ \E v \in 0..MaxRet :
             /\ h' = [h EXCEPT !.phase = "FanBase",
                               !.ret = IF h.fn = "BeforeAll" THEN BitOr(@, v) ELSE @]
             /\ g' = [Traced(g, "Own", <<"ElastixBase", 0>>)
                        EXCEPT !.rets = IF h.fn = "BeforeAll" THEN @ \cup {v} ELSE @]
        /\ UNCHANGED <<em, et>>
     \/ /\ h' = RaisedH /\ em' = RaisedEm /\ et' = RaisedEt
        /\ g' = Traced(g, "Own", <<"ElastixBase", 0>>)
  /\ UNCHANGED <<env, config, cdb, containers, reg>>

\* One call of CallInEachComponentInt: the handler of the next component is
\* called and its value is or-ed into returndummy.
FanCallInt ==
  /\ h.fn = "BeforeAll"
  /\ h.phase \in {"FanBase", "Fan"}
  /\ Len(g.calls) < Len(CallInEachComponentInt(containers))
  /\ \/ /\ \E v \in 0..MaxRet :
             /\ h' = [h EXCEPT !.ret = BitOr(@, v)]
             /\ g' = [Traced(g, h.phase, CallInEachComponentInt(containers)[Len(g.calls) + 1])
                        EXCEPT !.calls = Append(@, CallInEachComponentInt(containers)[Len(g.calls) + 1]),
                               !.cnt = @ + 1,
                               !.rets = @ \cup {v}]
        /\ UNCHANGED <<em, et>>
     \/ /\ h' = RaisedH /\ em' = RaisedEm /\ et' = RaisedEt
        /\ g' = [Traced(g, h.phase, CallInEachComponentInt(containers)[Len(g.calls) + 1])
                   EXCEPT !.calls = Append(@, CallInEachComponentInt(containers)[Len(g.calls) + 1]),
                          !.cnt = @ + 1]
  /\ UNCHANGED <<env, config, cdb, containers, reg>>

\* One call of CallInEachComponent: the handler of the next component is called.
FanCall ==
  /\ h.fn \notin {"None", "BeforeAll"}
  /\ h.phase \in {"FanBase", "Fan"}
  /\ Len(g.calls) < Len(CallInEachComponent(containers))
  /\ g' = [Traced(g, h.phase, CallInEachComponent(containers)[Len(g.calls) + 1])
             EXCEPT !.calls = Append(@, CallInEachComponent(containers)[Len(g.calls) + 1]),
                    !.cnt = @ + 1]
  /\ \/ UNCHANGED <<em, et, h>>
     \/ /\ h' = RaisedH /\ em' = RaisedEm /\ et' = RaisedEt
  /\ UNCHANGED <<env, config, cdb, containers, reg>>

\* The fan-out of the <stage>Base handlers has returned; the fan-out of the
\* <stage> handlers starts.
FanBaseReturn ==
  /\ h.phase = "FanBase"
  /\ Len(g.calls) = Len(FanOrder(h.fn, containers))
  /\ h' = [h EXCEPT !.phase = "Fan"]
  /\ g' = [g EXCEPT !.calls = <<>>]
  /\ UNCHANGED <<env, config, cdb, em, containers, et, reg>>

\* BeforeAll(): returndummy = 0; returndummy |= this->BeforeAllBase(); ...
BeforeAllEnter ==
  /\ et.pc = "BeforeAll"
  /\ h.fn = "None"
  /\ h' = EnteredH("BeforeAll", 0)
  /\ g' = EnteredG("BeforeAll")
  /\ UNCHANGED <<env, config, cdb, em, containers, et, reg>>

\* BeforeAll returns returndummy: int dummy = this->BeforeAll();
BeforeAllExit ==
  /\ h.fn = "BeforeAll"
  /\ FanOutsDone
  /\ et' = [et EXCEPT !.dummy = h.ret, !.pc = "CheckBeforeAll"]
  /\ h' = IdleH
  /\ UNCHANGED <<env, config, cdb, em, containers, reg, g>>

\* if ( dummy != 0 ) return dummy;  ElastixMain::Run stores it in errorCode.
RunCheckBeforeAll ==
  /\ et.pc = "CheckBeforeAll"
  /\ IF BeforeAllStopsRun(et.dummy)
     THEN /\ et' = [et EXCEPT !.pc = "Returned"]
          /\ em' = [em EXCEPT !.pc = "AfterRun", !.errorCode = et.dummy]
     ELSE /\ et' = [et EXCEPT !.pc = "Wire"]
          /\ UNCHANGED em
  /\ UNCHANGED <<env, config, cdb, containers, h, reg, g>>

\* The commands are created and added as observers to Registration 0 and
\* Optimizer 0.  With an empty Registration or Optimizer container
\* GetElx<role>Base() is null and the call through it is undefined: the
\* process crashes or Run returns some value.
RunWire ==
  /\ et.pc = "Wire"
  /\ IF containers["Registration"] = <<>> \/ containers["Optimizer"] = <<>>
     THEN /\ et' = [et EXCEPT !.pc = "Undefined"]
          /\ \/ em' = [em EXCEPT !.pc = "Crashed"]
             \/ \E v \in 0..MaxRet : em' = [em EXCEPT !.pc = "AfterRun", !.errorCode = v]
     ELSE /\ et' = [et EXCEPT !.pc = AfterWirePc, !.observers = RunObservers]
          /\ UNCHANGED em
  /\ UNCHANGED <<env, config, cdb, containers, h, reg, g>>

\* The loading steps of the kinds 1..n without the test on element 0.
LoadUpToAlways(images, n, loaded) == [images |-> [k \in KindSet |-> IF \E i \in 1..n : Kinds[i] = k THEN "loaded" ELSE images[k]], loaded |-> loaded \cup {Kinds[i] : i \in 1..n}]

RECURSIVE LoadUpTo(_, _, _)
\* The image containers after the loading steps of the kinds 1..n: a container
\* whose element 0 is absent is replaced by the loader's result.
LoadUpTo(images, n, loaded) ==
  IF n = 0 THEN [images |-> images, loaded |-> loaded]
  ELSE LET before == LoadUpTo(images, n - 1, loaded)
           k == Kinds[n]
       IN IF before.images[k] = "absent"
          THEN [images |-> [before.images EXCEPT ![k] = "loaded"],
                loaded |-> before.loaded \cup {k}]
          ELSE before

\* Read images and masks, if not set already.  The loader of a kind may raise;
\* the kinds before it are loaded then.
RunLoad ==
  /\ et.pc = "Load"
  /\ \/ LET r == LoadUpTo(et.images, Len(Kinds), {})
        IN /\ et' = [et EXCEPT !.images = r.images, !.pc = "BeforeRegistration"]
           /\ g' = [g EXCEPT !.loads = r.loaded, !.stage = "Load"]
           /\ UNCHANGED <<em, h>>
     \/ \E n \in 1..Len(Kinds) :
          /\ et.images[Kinds[n]] = "absent"
          /\ LET r == LoadUpTo(et.images, n - 1, {})
             IN /\ et' = [RaisedEt EXCEPT !.images = r.images]
                /\ g' = [g EXCEPT !.loads = r.loaded \cup {Kinds[n]}, !.stage = "Load"]
                /\ em' = RaisedEm
                /\ h' = RaisedH
  /\ UNCHANGED <<env, config, cdb, containers, reg>>

\* BeforeRegistration(): this->BeforeRegistrationBase(); ...
BeforeRegistrationEnter ==
  /\ et.pc = "BeforeRegistration"
  /\ h.fn = "None"
  /\ h' = EnteredH("BeforeRegistration", 0)
  /\ g' = EnteredG("BeforeRegistration")
  /\ UNCHANGED <<env, config, cdb, em, containers, et, reg>>

BeforeRegistrationExit ==
  /\ h.fn = "BeforeRegistration"
  /\ FanOutsDone
  /\ h' = IdleH
  /\ et' = [et EXCEPT !.pc = "StartRegistration"]
  /\ UNCHANGED <<env, config, cdb, em, containers, reg, g>>

\* ( this->GetElxRegistrationBase()->GetAsITKBaseType() )->StartRegistration();
\* the registration component decides on its number of levels.
RunStartRegistration ==
  /\ et.pc = "StartRegistration"
  /\ \E n \in 1..MaxLevels :
       reg' = [pc |-> "Level", level |-> 0, levels |-> n, steps |-> 0, todo |-> <<>>,
               event |-> NoEvent]
  /\ et' = [et EXCEPT !.pc = "InRegistration"]
  /\ UNCHANGED <<env, config, cdb, em, containers, h, g>>

\* The stage handlers are free and no command of the last event is left to run.
DriverRuns ==
  /\ et.pc = "InRegistration"
  /\ h.fn = "None"
  /\ reg.todo = <<>>

\* Registration 0 starts its current level: it invokes an IterationEvent.
DrvBeginLevel ==
  /\ DriverRuns
  /\ reg.pc = "Level"
  /\ reg' = [reg EXCEPT !.pc = "Optimize", !.steps = 0,
                        !.todo = InvokeEvent(et.observers, <<"Registration", 0>>, "IterationEvent"),
                        !.event = [subject |-> <<"Registration", 0>>, event |-> "IterationEvent"]]
  /\ g' = [g EXCEPT !.nAEI = 0]
  /\ UNCHANGED <<env, config, cdb, em, containers, et, h>>

\* Optimizer 0 completes a step: it invokes an IterationEvent.
DrvOptimizerStep ==
  /\ DriverRuns
  /\ reg.pc = "Optimize"
  /\ reg.steps < MaxIter
  /\ reg' = [reg EXCEPT !.steps = @ + 1,
                        !.todo = InvokeEvent(et.observers, <<"Optimizer", 0>>, "IterationEvent"),
                        !.event = [subject |-> <<"Optimizer", 0>>, event |-> "IterationEvent"]]
  /\ UNCHANGED <<env, config, cdb, em, containers, et, h, g>>

\* Optimizer 0 stops by its own rule: it invokes an EndEvent.
DrvOptimizerEnd ==
  /\ DriverRuns
  /\ reg.pc = "Optimize"
  /\ reg' = [reg EXCEPT !.pc = "LevelEnd",
                        !.todo = InvokeEvent(et.observers, <<"Optimizer", 0>>, "EndEvent"),
                        !.event = [subject |-> <<"Optimizer", 0>>, event |-> "EndEvent"]]
  /\ UNCHANGED <<env, config, cdb, em, containers, et, h, g>>

\* The events by which Registration 0 and Optimizer 0 drive the levels and steps.
DriverEvents ==
  { [subject |-> <<"Registration", 0>>, event |-> "IterationEvent"],
    [subject |-> <<"Optimizer", 0>>, event |-> "IterationEvent"],
    [subject |-> <<"Optimizer", 0>>, event |-> "EndEvent"] }

\* Every event a Registration or Optimizer instance of this run can invoke.
AllEvents ==
  { [subject |-> <<role, k>>, event |-> e] :
      role \in {"Registration", "Optimizer"}, k \in 0..(MaxInst - 1),
      e \in {"StartEvent", "IterationEvent", "EndEvent"} }

\* Another instance, or instance 0 with another event, invokes an event while
\* the registration runs.
DrvOtherEvent ==
  /\ DriverRuns
  /\ reg.pc \in {"Level", "Optimize", "LevelEnd"}
  /\ \E ev \in AllEvents \ DriverEvents :
       /\ ev.subject[2] < Len(containers[ev.subject[1]])
       /\ ev # reg.event
       /\ reg' = [reg EXCEPT !.todo = InvokeEvent(et.observers, ev.subject, ev.event),
                             !.event = ev]
  /\ UNCHANGED <<env, config, cdb, em, containers, et, h, g>>

\* Registration 0 advances to the next level, or StartRegistration returns.
DrvNextLevel ==
  /\ DriverRuns
  /\ reg.pc = "LevelEnd"
  /\ IF reg.level + 1 < reg.levels
     THEN /\ reg' = [reg EXCEPT !.level = @ + 1, !.pc = "Level", !.event = NoEvent]
          /\ UNCHANGED et
     ELSE /\ reg' = [reg EXCEPT !.pc = "Done", !.event = NoEvent]
          /\ et' = [et EXCEPT !.pc = "AfterRegistration"]
  /\ UNCHANGED <<env, config, cdb, em, containers, h, g>>

\* The command cmd is the next to run for the event invoked last.
CommandDue(cmd) ==
  /\ et.pc = "InRegistration"
  /\ h.fn = "None"
  /\ reg.todo # <<>>
  /\ Head(reg.todo) = cmd

\* The command has run.
CommandDone == [reg EXCEPT !.todo = Tail(@)]

\* BeforeEachResolution(): level = GetCurrentLevel(); m_IterationCounter = 0;
\* this->BeforeEachResolutionBase(); ...
BeforeEachResolutionEnter ==
  /\ CommandDue("BeforeEachResolution")
  /\ et' = [et EXCEPT !.iterationCounter = ResetIterationCounter(@)]
  /\ h' = EnteredH("BeforeEachResolution", reg.level)
  /\ g' = [EnteredG("BeforeEachResolution") EXCEPT !.nBER = @ + 1,
                                                   !.before = et.iterationCounter]
  /\ UNCHANGED <<env, config, cdb, em, containers, reg>>

BeforeEachResolutionExit ==
  /\ h.fn = "BeforeEachResolution"
  /\ FanOutsDone
  /\ h' = IdleH
  /\ reg' = CommandDone
  /\ UNCHANGED <<env, config, cdb, em, containers, et, g>>

\* AfterEachIteration(): this->AfterEachIterationBase(); ...
AfterEachIterationEnter ==
  /\ CommandDue("AfterEachIteration")
  /\ h' = EnteredH("AfterEachIteration", reg.level)
  /\ g' = [EnteredG("AfterEachIteration") EXCEPT !.nAEI = @ + 1]
  /\ UNCHANGED <<env, config, cdb, em, containers, et, reg>>

\* AfterEachIteration counting the iteration before it names the snapshot.
AfterEachIterationExitCountingFirst ==
  /\ h.fn = "AfterEachIteration"
  /\ FanOutsDone
  /\ et' = [et EXCEPT !.currentFile = IF env.writeEachIteration
                                      THEN <<"It", reg.level, et.iterationCounter + 1>> ELSE @,
                      !.iterationCounter = @ + 1]
  /\ h' = IdleH
  /\ reg' = CommandDone
  /\ UNCHANGED <<env, config, cdb, em, containers, g>>

\* After the fan-outs: the snapshot TransformParameters.<e>.R<level>.It<counter>.txt
\* is written if WriteTransformParametersEachIteration; m_IterationCounter++.
AfterEachIterationExit ==
  /\ h.fn = "AfterEachIteration"
  /\ FanOutsDone
  /\ et' = [et EXCEPT !.currentFile = IF env.writeEachIteration
                                      THEN <<"It", reg.level, et.iterationCounter>> ELSE @,
                      !.iterationCounter = @ + 1]
  /\ h' = IdleH
  /\ reg' = CommandDone
  /\ UNCHANGED <<env, config, cdb, em, containers, g>>

\* AfterEachResolution(): level = GetCurrentLevel(); this->AfterEachResolutionBase(); ...
AfterEachResolutionEnter ==
  /\ CommandDue("AfterEachResolution")
  /\ h' = EnteredH("AfterEachResolution", reg.level)
  /\ g' = [EnteredG("AfterEachResolution") EXCEPT !.nAER = @ + 1]
  /\ UNCHANGED <<env, config, cdb, em, containers, et, reg>>

\* After the fan-outs: TransformParameters.<e>.R<level>.txt is written if
\* WriteTransformParametersEachResolution.
AfterEachResolutionExit ==
  /\ h.fn = "AfterEachResolution"
  /\ FanOutsDone
  /\ et' = [et EXCEPT !.currentFile = IF env.writeEachResolution
                                      THEN <<"R", reg.level, 0>> ELSE @]
  /\ h' = IdleH
  /\ reg' = CommandDone
  /\ UNCHANGED <<env, config, cdb, em, containers, g>>

\* AfterRegistration() without the final parameter file.
AfterRegistrationEnterNotWriting ==
  /\ et.pc = "AfterRegistration"
  /\ h.fn = "None"
  /\ h' = EnteredH("AfterRegistration", reg.level)
  /\ g' = EnteredG("AfterRegistration")
  /\ UNCHANGED <<env, config, cdb, em, containers, et, reg>>

\* AfterRegistration(): the final TransformParameters.<e>.txt is written, then
\* this->AfterRegistrationBase(); ...
AfterRegistrationEnter ==
  /\ et.pc = "AfterRegistration"
  /\ h.fn = "None"
  /\ et' = [et EXCEPT !.currentFile = <<"Final", 0, 0>>]
  /\ h' = EnteredH("AfterRegistration", reg.level)
  /\ g' = [EnteredG("AfterRegistration") EXCEPT !.finals = @ + 1]
  /\ UNCHANGED <<env, config, cdb, em, containers, reg>>

AfterRegistrationExit ==
  /\ h.fn = "AfterRegistration"
  /\ FanOutsDone
  /\ h' = IdleH
  /\ et' = [et EXCEPT !.pc = "Finish"]
  /\ UNCHANGED <<env, config, cdb, em, containers, reg, g>>

\* The last element of the transform container.
FinalTransformLast(cont) == cont["Transform"][Len(cont["Transform"])].label

\* GetTransformContainer()->ElementAt(0): the first element of the container.
FinalTransformOf(cont) == cont["Transform"][1].label

\* SetFinalTransform( GetTransformContainer()->ElementAt(0) );
\* ConfigureComponents( 0 ); return 0;
RunFinish ==
  /\ et.pc = "Finish"
  /\ et' = [et EXCEPT !.finalTransform = FinalTransformOf(containers), !.pc = "Returned"]
  /\ containers' = ConfigureComponents(containers, FALSE)
  /\ em' = [em EXCEPT !.pc = "AfterRun", !.errorCode = 0]
  /\ UNCHANGED <<env, config, cdb, h, reg, g>>

-----------------------------------------------------------------------------

Next ==
  \/ MainInitDBIndex
  \/ MainCreateElastix
  \/ MainCreateComponents
  \/ MainCheckComponents
  \/ MainAfterRun
  \/ RunConfigure
  \/ OwnBase
  \/ FanCallInt
  \/ FanCall
  \/ FanBaseReturn
  \/ BeforeAllEnter
  \/ BeforeAllExit
  \/ RunCheckBeforeAll
  \/ RunWire
  \/ RunLoad
  \/ BeforeRegistrationEnter
  \/ BeforeRegistrationExit
  \/ RunStartRegistration
  \/ DrvBeginLevel
  \/ DrvOptimizerStep
  \/ DrvOptimizerEnd
  \/ DrvNextLevel
  \/ DrvOtherEvent
  \/ BeforeEachResolutionEnter
  \/ BeforeEachResolutionExit
  \/ AfterEachIterationEnter
  \/ AfterEachIterationExit
  \/ AfterEachResolutionEnter
  \/ AfterEachResolutionExit
  \/ AfterRegistrationEnter
  \/ AfterRegistrationExit
  \/ RunFinish

Spec == Init /\ [][Next]_vars

-----------------------------------------------------------------------------
(* Dispatch resolution and component creation on their own: every form of   *)
(* image-type input, of registry content and of component declaration,      *)
(* and Run called again on the same ElastixMain after it has returned.      *)

\* The instance indices at which a parameter file declares names here: two
\* more than the names of a role in the runs of Spec, so that a declaration
\* can have a gap with names above it.
DeclIdx == 0..(MaxInst + 1)

\* Every declaration of one role over DeclIdx.
RowsCreate == [DeclIdx -> {NoName} \cup CfgNames]

\* BaseConfig over DeclIdx.
BaseConfigCreate ==
  [r \in Roles |-> [i \in DeclIdx |-> IF i = 0 /\ DefaultName(r) = NoName THEN "Known" ELSE NoName]]

ConfigsCreate ==
  { [BaseConfigCreate EXCEPT ![r] = row] : r \in Roles, row \in RowsCreate }

\* The inputs of the dimension step for one image: the two command line
\* arguments, what the header probe gives and the parameter file entry.
SideForms ==
  [arg : {"", "image.mhd"}, arg0 : {"", "image0.mhd"},
   header : {[ok |-> FALSE, dim |-> 0], [ok |-> TRUE, dim |-> 0],
             [ok |-> TRUE, dim |-> 2], [ok |-> TRUE, dim |-> 3]},
   par : {NoPar, [found |-> TRUE, value |-> 2], [found |-> TRUE, value |-> 3]}]

WithFixed(e, s) ==
  [e EXCEPT !.argF = s.arg, !.argF0 = s.arg0, !.fixedHeader = s.header, !.parFixedDim = s.par]

WithMoving(e, s) ==
  [e EXCEPT !.argM = s.arg, !.argM0 = s.arg0, !.movingHeader = s.header, !.parMovingDim = s.par]

\* Two 3D images.
BaseEnv3 ==
  [BaseEnv EXCEPT !.fixedHeader = [ok |-> TRUE, dim |-> 3],
                  !.movingHeader = [ok |-> TRUE, dim |-> 3]]

EnvCreate ==
  { WithFixed([b EXCEPT !.library = l], s) : b \in {BaseEnv, BaseEnv3}, l \in BOOLEAN, s \in SideForms }
  \cup { WithMoving([b EXCEPT !.library = l], s) : b \in {BaseEnv, BaseEnv3}, l \in BOOLEAN, s \in SideForms }
  \cup { [BaseEnv EXCEPT !.library = TRUE, !.parFixedDim = p, !.parMovingDim = q] :
           p, q \in {NoPar, [found |-> TRUE, value |-> 2], [found |-> TRUE, value |-> 3]} }
  \cup { [BaseEnv EXCEPT !.parFixedPix = p, !.parMovingPix = q] :
           p, q \in {NotFound, "float", "short"} }
  \cup { [BaseEnv EXCEPT !.initialized = FALSE] }

\* Registries: the fully populated one, ones that lack the creators of a name
\* or of an index, ones with a creator that yields no instance, and one
\* without any installed image type.
DbCreate ==
  { FullDb }
  \cup { [FullDb EXCEPT !.creators = { c \in AllCreators : c[1] # n }] : n \in AllNames }
  \cup { [FullDb EXCEPT !.creators = { c \in AllCreators : c[2] # i }] : i \in {1, 2} }
  \cup { [FullDb EXCEPT !.nullCreators = {n}] : n \in AllNames }
  \cup { [FullDb EXCEPT !.index = {}] }

ScenariosCreate ==
  { [env |-> e, config |-> BaseConfigCreate, db |-> FullDb] : e \in EnvCreate }
  \cup { [env |-> BaseEnv, config |-> c, db |-> FullDb] : c \in ConfigsCreate }
  \cup { [env |-> e, config |-> BaseConfigCreate, db |-> d] : e \in {BaseEnv, BaseEnv3}, d \in DbCreate }

InitCreate ==
  \E s \in ScenariosCreate :
    /\ env = s.env
    /\ config = s.config
    /\ cdb = s.db
    /\ em = EmInit
    /\ containers = [r \in Roles |-> <<>>]
    /\ et = EtInit
    /\ h = HInit
    /\ reg = RegInit
    /\ g = GInit

\* Run() is called again on the same ElastixMain: the image-type members and
\* m_Elastix are as the call before left them, errorCode is a new local.
MainRunAgain ==
  /\ em.pc = "Returned"
  /\ g.runs < MaxRuns
  /\ em' = [em EXCEPT !.pc = "Idle", !.errorCode = 0, !.ret = 0, !.createIdx = 0]
  /\ g' = [GInit EXCEPT !.runs = g.runs + 1,
                        !.first = IF g.runs = 1
                                  THEN [NoFirst EXCEPT !.ret = em.ret, !.initDB = g.initDB]
                                  ELSE g.first]
  /\ UNCHANGED <<env, config, cdb, containers, et, h, reg>>

NextCreate ==
  \/ MainInitDBIndex
  \/ MainCreateElastix
  \/ MainCreateComponents
  \/ MainCheckComponents
  \/ MainRunAgain

SpecCreate == InitCreate /\ [][NextCreate]_vars


-----------------------------------------------------------------------------
(* ElastixMain::GetComponentDatabase: the function-local static registry,   *)
(* initialised by the first call, and the threads that call it.             *)

Threads == 1..MaxThreads

\* The components in the order in which the component loader installs them.
LoadOrder ==
  <<"Elastix", "MultiResolutionRegistration", "FixedSmoothingImagePyramid",
    "MovingSmoothingImagePyramid", "BSplineInterpolator", "FinalBSplineInterpolator",
    "DefaultResampler", "Known">>

\* Names a caller asks the registry for.
AskedNames == {"Elastix", "Known", "Unknown"}

NoResult == [name |-> "", index |-> 0, ok |-> FALSE]

\* A thread before its call; local is the database the initialiser builds.
ThreadInit ==
  [pc |-> "Start", waited |-> FALSE, got |-> 0, complete |-> FALSE, res |-> NoResult,
   local |-> [creators |-> {}, pos |-> 0, errors |-> 0]]

\* The static before the first call: not initialised.
DbStatic ==
  [guard |-> "uninit", instance |-> 0, passes |-> 0, loadResult |-> 0,
   index |-> {}, creators |-> {}, nullCreators |-> {},
   thr |-> [t \in Threads |-> ThreadInit]]

\* A caller that need not wait initialises the static when doing so is unsynchronised.
MayInitializeUnsynchronised(guard) == guard # "done"

\* The caller that finds the static not initialised runs the initialiser.
MayInitialize(guard) == guard = "uninit"

\* A caller that finds the initialisation in progress waits for its completion.
MustWait(guard) == guard = "running" /\ ~MayInitialize(guard)

\* The initialiser returning no database when loading the components failed.
PublishedOnlyWhenLoaded(loadResult, id) == IF loadResult # 0 THEN 0 ELSE id

\* The initialiser returns componentDatabase, whatever LoadComponents returned.
Published(loadResult, id) == id

InitDB ==
  /\ env = BaseEnv
  /\ config = BaseConfig
  /\ cdb = DbStatic
  /\ em = EmInit
  /\ containers = [r \in Roles |-> <<>>]
  /\ et = EtInit
  /\ h = HInit
  /\ reg = RegInit
  /\ g = GInit

\* A thread calls GetComponentDatabase and finds the static initialised, or
\* not initialised: then it starts the initialiser (ComponentDatabase::New(),
\* ComponentLoader::New(), SetComponentDatabase).
ThreadCall(t) ==
  /\ cdb.thr[t].pc \in {"Start", "Waiting"}
  /\ IF MayInitialize(cdb.guard)
     THEN cdb' = [cdb EXCEPT !.guard = "running", !.passes = @ + 1,
                             !.thr[t].pc = "Init"]
     ELSE /\ ~MustWait(cdb.guard)
          /\ cdb' = [cdb EXCEPT !.thr[t].pc = "Initialised"]
  /\ UNCHANGED <<env, config, em, containers, et, h, reg, g>>

\* A thread calls GetComponentDatabase while the initialisation is in progress.
ThreadWait(t) ==
  /\ cdb.thr[t].pc = "Start"
  /\ MustWait(cdb.guard)
  /\ cdb' = [cdb EXCEPT !.thr[t].pc = "Waiting", !.thr[t].waited = TRUE]
  /\ UNCHANGED <<env, config, em, containers, et, h, reg, g>>

\* LoadComponents installs the next component for every image type, or fails
\* to and counts the failure.
LoadStep(t) ==
  /\ cdb.thr[t].pc = "Init"
  /\ cdb.thr[t].local.pos < Len(LoadOrder)
  /\ LET name == LoadOrder[cdb.thr[t].local.pos + 1]
     IN \/ cdb' = [cdb EXCEPT !.thr[t].local.pos = @ + 1,
                              !.thr[t].local.creators =
                                 @ \cup { <<name, ty[5]>> : ty \in SupportedImageTypes }]
        \/ cdb' = [cdb EXCEPT !.thr[t].local.pos = @ + 1,
                              !.thr[t].local.errors = 1]
  /\ UNCHANGED <<env, config, em, containers, et, h, reg, g>>

\* LoadComponents has returned; a nonzero value is logged; the initialiser
\* returns the database and the static is initialised.
InitDone(t) ==
  /\ cdb.thr[t].pc = "Init"
  /\ cdb.thr[t].local.pos = Len(LoadOrder)
  /\ cdb' = [cdb EXCEPT !.guard = "done",
                        !.loadResult = cdb.thr[t].local.errors,
                        !.instance = Published(cdb.thr[t].local.errors, cdb.passes),
                        !.index = SupportedImageTypes,
                        !.creators = cdb.thr[t].local.creators,
                        !.thr[t].pc = "Initialised"]
  /\ UNCHANGED <<env, config, em, containers, et, h, reg, g>>

\* return *componentDatabase;
ThreadReturn(t) ==
  /\ cdb.thr[t].pc = "Initialised"
  /\ cdb' = [cdb EXCEPT !.thr[t].pc = "Got",
                        !.thr[t].got = cdb.instance,
                        !.thr[t].complete = (cdb.guard = "done")]
  /\ UNCHANGED <<env, config, em, containers, et, h, reg, g>>

\* The caller uses the registry it got as CreateComponent does, under the
\* index of the two-dimensional float image type.
ThreadCreate(t) ==
  /\ cdb.thr[t].pc = "Got"
  /\ cdb.thr[t].got # 0
  /\ \E name \in AskedNames :
       LET index == GetIndex(cdb, "float", 2, "float", 2)
           c == CreateComponent(cdb, index, name)
       IN cdb' = [cdb EXCEPT !.thr[t].pc = "Used",
                             !.thr[t].res = [name |-> name, index |-> index, ok |-> c.ok]]
  /\ UNCHANGED <<env, config, em, containers, et, h, reg, g>>

NextDB ==
  \/ \E t \in Threads : ThreadCall(t)
  \/ \E t \in Threads : ThreadWait(t)
  \/ \E t \in Threads : LoadStep(t)
  \/ \E t \in Threads : InitDone(t)
  \/ \E t \in Threads : ThreadReturn(t)
  \/ \E t \in Threads : ThreadCreate(t)

SpecDB == InitDB /\ [][NextDB]_vars

-----------------------------------------------------------------------------
(* Two ElastixMain objects, constructed one after the other, run with the    *)
(* same configuration, the same inputs and components that behave the same.  *)

\* The components of the scripted runs do nothing special: one level, one
\* iteration, no error, every BeforeAll returning 0.
BaseScript ==
  [fault |-> 0, baAt |-> 0, baVal |-> 0, loadFault |-> 0, levels |-> 1, iters |-> 1]

\* The invocations at which a handler raises, counted from the first
\* invocation of the run.
FaultSamples == {1, 2} \cup { k \in 3..150 : k % 11 = 0 }

\* What the components do in both runs: the invocation that raises, the
\* BeforeAll that returns a nonzero value, the image loader that raises, the
\* number of levels and the number of iterations of each level.
ScriptsPair ==
  {BaseScript}
    \cup { [BaseScript EXCEPT !.fault = k] : k \in FaultSamples }
    \cup { [BaseScript EXCEPT !.baAt = k, !.baVal = v] : k \in {1, 2, 23}, v \in 1..MaxRet }
    \cup { [BaseScript EXCEPT !.loadFault = n] : n \in 1..Len(Kinds) }
    \cup { [BaseScript EXCEPT !.levels = l, !.iters = i] : l \in 1..MaxLevels, i \in 0..MaxIter }

\* The configurations of the scripted runs: the base configuration, two
\* transforms, and a Registration that cannot be created with no ImageSampler
\* declared.
ConfigsPair ==
  { BaseConfig,
    [BaseConfig EXCEPT !["Transform"] = RoleForm(MaxInst, FALSE)],
    [BaseConfig EXCEPT !["Registration"] = RoleForm(0, TRUE),
                       !["ImageSampler"] = RoleForm(0, FALSE)] }

InitPair ==
  /\ env = BaseEnv
  /\ config \in ConfigsPair
  /\ cdb = FullDb
  /\ em = EmInit
  /\ containers = [r \in Roles |-> <<>>]
  /\ et = EtInit
  /\ h = HInit
  /\ reg = RegInit
  /\ \E sc \in ScriptsPair : g = [GInit EXCEPT !.tracing = TRUE, !.script = sc]

\* As ScriptAllows, with an optimizer free to take any number of iterations.
ScriptAllowsAnyIterations ==
  LET sc == g.script
      invoked == Len(g'.trace) = Len(g.trace) + 1
      raisedNow == h'.phase = "Raised" /\ h.phase # "Raised"
  IN /\ invoked => (raisedNow <=> sc.fault = Len(g'.trace))
     /\ invoked /\ ~raisedNow /\ h.fn = "BeforeAll" =>
          h'.ret = BitOr(h.ret, IF sc.baAt = Len(g'.trace) THEN sc.baVal ELSE 0)
     /\ et.pc = "Load" =>
          IF sc.loadFault = 0
          THEN et'.pc # "Raised"
          ELSE /\ et'.pc = "Raised"
               /\ Kinds[sc.loadFault] \in g'.loads
               /\ \A n \in (sc.loadFault + 1)..Len(Kinds) : Kinds[n] \notin g'.loads
     /\ et.pc = "StartRegistration" => reg'.levels = sc.levels

\* The step is one the components of the script take: a handler raises at the
\* invocation the script names and at no other, a BeforeAll returns the
\* script's value, the loader named by the script raises, and the registration
\* has the script's number of levels and of iterations.
ScriptAllows ==
  LET sc == g.script
      invoked == Len(g'.trace) = Len(g.trace) + 1
      raisedNow == h'.phase = "Raised" /\ h.phase # "Raised"
  IN /\ invoked => (raisedNow <=> sc.fault = Len(g'.trace))
     /\ invoked /\ ~raisedNow /\ h.fn = "BeforeAll" =>
          h'.ret = BitOr(h.ret, IF sc.baAt = Len(g'.trace) THEN sc.baVal ELSE 0)
     /\ et.pc = "Load" =>
          IF sc.loadFault = 0
          THEN et'.pc # "Raised"
          ELSE /\ et'.pc = "Raised"
               /\ Kinds[sc.loadFault] \in g'.loads
               /\ \A n \in (sc.loadFault + 1)..Len(Kinds) : Kinds[n] \notin g'.loads
     /\ et.pc = "StartRegistration" => reg'.levels = sc.levels
     /\ DriverRuns /\ reg.pc = "Optimize" =>
          IF reg.steps < sc.iters THEN reg'.steps = reg.steps + 1 ELSE reg'.pc = "LevelEnd"

\* The first ElastixMain has ended its Run: its result and its invocations are
\* kept, and a second ElastixMain is constructed.
PairSecond ==
  /\ em.pc \in {"Returned", "Crashed"}
  /\ g.runs = 1
  /\ em' = EmInit
  /\ containers' = [r \in Roles |-> <<>>]
  /\ et' = EtInit
  /\ h' = HInit
  /\ reg' = RegInit
  /\ g' = [GInit EXCEPT !.runs = 2, !.tracing = TRUE, !.script = g.script,
                        !.first = [pc |-> em.pc, ret |-> em.ret,
                                   finalTransform |-> em.finalTransform,
                                   trace |-> g.trace, undefined |-> et.pc = "Undefined",
                                   initDB |-> g.initDB]]
  /\ UNCHANGED <<env, config, cdb>>

NextPair ==
  \/ MainInitDBIndex /\ ScriptAllows
  \/ MainCreateElastix /\ ScriptAllows
  \/ MainCreateComponents /\ ScriptAllows
  \/ MainCheckComponents /\ ScriptAllows
  \/ MainAfterRun /\ ScriptAllows
  \/ RunConfigure /\ ScriptAllows
  \/ OwnBase /\ ScriptAllows
  \/ FanCallInt /\ ScriptAllows
  \/ FanCall /\ ScriptAllows
  \/ FanBaseReturn /\ ScriptAllows
  \/ BeforeAllEnter /\ ScriptAllows
  \/ BeforeAllExit /\ ScriptAllows
  \/ RunCheckBeforeAll /\ ScriptAllows
  \/ RunWire /\ ScriptAllows
  \/ RunLoad /\ ScriptAllows
  \/ BeforeRegistrationEnter /\ ScriptAllows
  \/ BeforeRegistrationExit /\ ScriptAllows
  \/ RunStartRegistration /\ ScriptAllows
  \/ DrvBeginLevel /\ ScriptAllows
  \/ DrvOptimizerStep /\ ScriptAllows
  \/ DrvOptimizerEnd /\ ScriptAllows
  \/ DrvNextLevel /\ ScriptAllows
  \/ BeforeEachResolutionEnter /\ ScriptAllows
  \/ BeforeEachResolutionExit /\ ScriptAllows
  \/ AfterEachIterationEnter /\ ScriptAllows
  \/ AfterEachIterationExit /\ ScriptAllows
  \/ AfterEachResolutionEnter /\ ScriptAllows
  \/ AfterEachResolutionExit /\ ScriptAllows
  \/ AfterRegistrationEnter /\ ScriptAllows
  \/ AfterRegistrationExit /\ ScriptAllows
  \/ RunFinish /\ ScriptAllows
  \/ PairSecond

SpecPair == InitPair /\ [][NextPair]_vars

-----------------------------------------------------------------------------
(* Run called again on an ElastixMain that has run, after the caller has or  *)
(* has not entered other arguments.                                          *)

\* What the caller enters before the next call of Run: the arguments as they
\* were, a parameter map naming a Metric that has no creator, or nothing that
\* initialises the configuration.
InputsAgain ==
  { [config |-> BaseConfig, env |-> BaseEnv],
    [config |-> [BaseConfig EXCEPT !["Metric"] = RoleForm(0, TRUE)], env |-> BaseEnv],
    [config |-> BaseConfig, env |-> [BaseEnv EXCEPT !.initialized = FALSE]] }

\* What the components do in the next run: nothing special, a handler that
\* raises, or a BeforeAll that returns 1.
ScriptsAgain ==
  { BaseScript, [BaseScript EXCEPT !.fault = 2], [BaseScript EXCEPT !.baAt = 2, !.baVal = 1] }

\* Run() is called again on the same ElastixMain: the members m_FinalTransform,
\* m_DBIndex and the image types are as the call before left them, errorCode
\* is a new local; the ElastixTemplate of the call before is released when
\* m_Elastix is assigned.
AgainSecond ==
  /\ em.pc = "Returned"
  /\ g.runs < MaxRuns
  /\ \E in \in InputsAgain, sc \in ScriptsAgain :
       /\ config' = in.config
       /\ env' = in.env
       /\ g' = [GInit EXCEPT !.runs = g.runs + 1, !.tracing = TRUE, !.script = sc,
                             !.first = [g.first EXCEPT !.ret = em.ret,
                                                       !.finalTransform = em.finalTransform]]
  /\ em' = [em EXCEPT !.pc = "Idle", !.errorCode = 0, !.ret = 0, !.createIdx = 0]
  /\ containers' = [r \in Roles |-> <<>>]
  /\ et' = EtInit
  /\ h' = HInit
  /\ reg' = RegInit
  /\ UNCHANGED cdb

NextAgain == NextPair \/ AgainSecond

SpecAgain == InitPair /\ [][NextAgain]_vars

-----------------------------------------------------------------------------
(* ElastixMain::EnterCommandLineArguments( argmap, inputMaps ): one          *)
(* configuration object per parameter map.                                   *)

\* The parameter maps a caller gives: each map is known by its name and by
\* whether Configuration::Initialize accepts it.
ParameterMaps == { [id |-> n, accepted |-> a] : n \in {"A", "B"}, a \in BOOLEAN }

\* std::vector< ParameterMapType > of 0 to MaxMaps maps.
RECURSIVE MapLists(_)
MapLists(n) ==
  IF n = 0 THEN {<<>>}
  ELSE MapLists(n - 1)
         \cup { Append(l, m) : l \in { k \in MapLists(n - 1) : Len(k) = n - 1 }, m \in ParameterMaps }

\* A null ConfigurationPointer, and the object m_Configuration refers to
\* before the call.
NullConfiguration == [map |-> "", initialized |-> FALSE, state |-> "null"]
EarlierConfiguration == [map |-> "earlier", initialized |-> TRUE, state |-> "object"]

\* What a read of an element outside the vector may give.
OutsideRead ==
  [map |-> "", initialized |-> FALSE, state |-> "indeterminate"]

\* inputMaps.size() - 1 in size_t. A size_t value v is written as the integer
\* congruent to it modulo 2^64 that lies in -2^63 .. 2^63 - 1, so that the
\* value 2^64 - 1 of 0 - 1 is written -1; for the sizes used here a negative
\* integer stands for a value of at least 2^63.
LastIndex(size) == size - 1

\* The index is one of an element of a vector of this size.
InsideVector(index, size) == 0 <= index /\ index < size

\* An ElastixMain that has or has not been given maps before, and the maps
\* of this call.
InitEnter ==
  /\ \E maps \in MapLists(MaxMaps) : env = [BaseEnv EXCEPT !.initialized = TRUE] @@ [inputMaps |-> maps]
  /\ config = BaseConfig
  /\ cdb = FullDb
  /\ \E old \in {<<>>, <<EarlierConfiguration>>, <<EarlierConfiguration, EarlierConfiguration>>} :
       em = [pc |-> "Clear", configurations |-> old, configuration |-> EarlierConfiguration,
             i |-> 0, index |-> 0, errors |-> <<>>]
  /\ containers = [r \in Roles |-> <<>>]
  /\ et = EtInit
  /\ h = HInit
  /\ reg = RegInit
  /\ g = GInit

\* m_Configurations.clear(); m_Configurations.resize( inputMaps.size() );
EnterClear ==
  /\ em.pc = "Clear"
  /\ em' = [em EXCEPT !.configurations = [k \in 1..Len(env.inputMaps) |-> NullConfiguration],
                      !.i = 0, !.pc = "Loop"]
  /\ UNCHANGED <<env, config, cdb, containers, et, h, reg, g>>

\* m_Configurations[i] = Configuration::New();
\* dummy = m_Configurations[i]->Initialize( argmap, inputMaps[i] );
\* if ( dummy ) log::error( ... ); ++i
EnterInitialize ==
  /\ em.pc = "Loop"
  /\ em.i < Len(env.inputMaps)
  /\ LET map == env.inputMaps[em.i + 1]
     IN em' = [em EXCEPT !.configurations[em.i + 1] =
                             [map |-> map.id, initialized |-> map.accepted, state |-> "object"],
                         !.errors = IF map.accepted THEN @ ELSE Append(@, em.i),
                         !.i = @ + 1]
  /\ UNCHANGED <<env, config, cdb, containers, et, h, reg, g>>

\* m_Configuration = m_Configurations[ inputMaps.size() - 1 ]; the read of an
\* element outside the vector is undefined: it ends the program, or gives a
\* null pointer or an indeterminate one.
EnterSelect ==
  /\ em.pc = "Loop"
  /\ em.i >= Len(env.inputMaps)
  /\ LET index == LastIndex(Len(env.inputMaps))
     IN IF InsideVector(index, Len(em.configurations))
        THEN em' = [em EXCEPT !.index = index, !.configuration = em.configurations[index + 1],
                              !.pc = "Returned"]
        ELSE \/ em' = [em EXCEPT !.index = index, !.pc = "Crashed"]
             \/ \E c \in {NullConfiguration, OutsideRead} :
                  em' = [em EXCEPT !.index = index, !.configuration = c, !.pc = "Returned"]
  /\ UNCHANGED <<env, config, cdb, containers, et, h, reg, g>>

NextEnter == EnterClear \/ EnterInitialize \/ EnterSelect

SpecEnter == InitEnter /\ [][NextEnter]_vars

-----------------------------------------------------------------------------
(* ElastixTemplate::ApplyTransform: the transform-application-only mode.     *)

\* The roles whose instance 0 ApplyTransform calls.
ApplyRoles == {"ResampleInterpolator", "Resampler", "Transform"}

\* BeforeAllTransformix: the objects whose validation is called, in call order.
BeforeAllTransformixOrder ==
  <<"ElastixBase", "ResampleInterpolator", "Resampler", "Transform", "Configuration">>

\* The ReadFromFile calls with the transform read first.
ReadFromFileOrderTransformFirst == <<"Transform", "ResampleInterpolator", "Resampler">>

\* The components whose ReadFromFile() is called, in call order.
ReadFromFileOrder == <<"ResampleInterpolator", "Resampler", "Transform">>

\* ApplyTransform going on to the registration after the validation.
AfterValidatePcRegistering == "BeforeRegistration"

\* The step after BeforeAllTransformix returned 0: the input image.
AfterValidatePc == "Input"

\* The value ApplyTransform returns after the resampling, were a caught error reported.
ApplyReturnReporting(caught) == IF caught THEN 1 ELSE 0

\* return 0; at the end of ApplyTransform.
ApplyReturn(caught) == 0

\* The containers a caller of ApplyTransform has filled: the three roles of
\* the transform application with one or more unlabelled components.
ContainersApply ==
  { [r \in Roles |-> IF r \in ApplyRoles
                     THEN [i \in 1..n[r] |-> CallCreator(FullDb, DefaultName(r))]
                     ELSE <<>>] : n \in [ApplyRoles -> 1..MaxInst] }

\* The input image: none, named by -in, or set by the caller.
InputForms ==
  { [files |-> 0, image |-> "absent"], [files |-> 1, image |-> "absent"],
    [files |-> 0, image |-> "supplied"], [files |-> 1, image |-> "supplied"] }

EtApply(in) ==
  [pc |-> "Configure", iterationCounter |-> 0, observers |-> <<>>, finalTransform |-> NoLabel,
   images |-> [k \in KindSet |-> IF k = "MovingImage" THEN in.image ELSE "absent"],
   dummy |-> 0, currentFile |-> NoFile, files |-> in.files, ret |-> 0]

\* The record of the calls ApplyTransform has made: <<operation, object>>, and
\* of the errors raised and caught.
GApply ==
  [calls |-> <<>>, cnt |-> 0, stage |-> "None", steps |-> <<>>, caught |-> FALSE,
   raisedIn |-> "", wired |-> TRUE]

\* Every component has its label (role, index) and refers to the ElastixTemplate.
Wired(cont) ==
  \A r \in Roles : \A i \in 1..Len(cont[r]) : cont[r][i].label = <<r, i - 1>> /\ cont[r][i].elx

InitApply ==
  /\ env = BaseEnv
  /\ config = BaseConfig
  /\ cdb = FullDb
  /\ em = EmInit
  /\ containers \in ContainersApply
  /\ \E in \in InputForms : et = EtApply(in)
  /\ h = HInit
  /\ reg = RegInit
  /\ g = GApply

\* A call of ApplyTransform is recorded, with whether the components were
\* wired when it was made.
Stepped(op, obj) ==
  [g EXCEPT !.steps = Append(@, <<op, obj>>), !.wired = @ /\ Wired(containers)]

\* this->ConfigureComponents( this );
ApplyConfigure ==
  /\ et.pc = "Configure"
  /\ containers' = ConfigureComponents(containers, TRUE)
  /\ et' = [et EXCEPT !.pc = "Validate"]
  /\ g' = [g EXCEPT !.steps = Append(@, <<"ConfigureComponents", "ElastixBase">>)]
  /\ UNCHANGED <<env, config, cdb, em, h, reg>>

\* The validation calls made so far.
ValidationsDone == Len(SelectSeq(g.steps, LAMBDA c : c[1] = "BeforeAllTransformix"))

\* BeforeAllTransformix: the next validation is called and its value is or-ed
\* into returndummy, or it raises.
ApplyValidate ==
  /\ et.pc = "Validate"
  /\ ValidationsDone < Len(BeforeAllTransformixOrder)
  /\ LET obj == BeforeAllTransformixOrder[ValidationsDone + 1]
     IN \/ /\ \E v \in 0..MaxRet : et' = [et EXCEPT !.dummy = BitOr(@, v)]
           /\ g' = Stepped("BeforeAllTransformix", obj)
        \/ /\ et' = [et EXCEPT !.pc = "Raised"]
           /\ g' = [Stepped("BeforeAllTransformix", obj) EXCEPT !.raisedIn = "BeforeAllTransformix"]
  /\ UNCHANGED <<env, config, cdb, em, containers, h, reg>>

\* The value of BeforeAllTransformix is not looked at.
ApplyCheckValidateIgnoringValue ==
  /\ et.pc = "Validate"
  /\ ValidationsDone = Len(BeforeAllTransformixOrder)
  /\ et' = [et EXCEPT !.pc = AfterValidatePc]
  /\ UNCHANGED <<env, config, cdb, em, containers, h, reg, g>>

\* int dummy = this->BeforeAllTransformix(); if ( dummy != 0 ) return dummy;
ApplyCheckValidate ==
  /\ et.pc = "Validate"
  /\ ValidationsDone = Len(BeforeAllTransformixOrder)
  /\ IF et.dummy # 0
     THEN et' = [et EXCEPT !.pc = "Returned", !.ret = et.dummy]
     ELSE et' = [et EXCEPT !.pc = AfterValidatePc]
  /\ UNCHANGED <<env, config, cdb, em, containers, h, reg, g>>

\* The input image is loaded when file names or an image were given and the
\* image was not set already; the loader may raise.
ApplyInput ==
  /\ et.pc = "Input"
  /\ IF (et.files > 0 \/ et.images["MovingImage"] # "absent")
        /\ et.images["MovingImage"] = "absent"
     THEN \/ /\ et' = [et EXCEPT !.images["MovingImage"] = "loaded", !.pc = "Read"]
             /\ g' = Stepped("GenerateImageContainer", "MovingImage")
          \/ /\ et' = [et EXCEPT !.pc = "Raised"]
             /\ g' = [Stepped("GenerateImageContainer", "MovingImage")
                        EXCEPT !.raisedIn = "GenerateImageContainer"]
     ELSE /\ et' = [et EXCEPT !.pc = "Read"]
          /\ UNCHANGED g
  /\ UNCHANGED <<env, config, cdb, em, containers, h, reg>>

\* The ReadFromFile calls made so far.
ReadsDone == Len(SelectSeq(g.steps, LAMBDA c : c[1] = "ReadFromFile"))

\* The next ReadFromFile() is called; it returns or raises.
ApplyReadFromFile ==
  /\ et.pc = "Read"
  /\ ReadsDone < Len(ReadFromFileOrder)
  /\ LET obj == ReadFromFileOrder[ReadsDone + 1]
     IN \/ /\ et' = [et EXCEPT !.pc = IF ReadsDone + 1 = Len(ReadFromFileOrder)
                                      THEN "TransformPoints" ELSE "Read"]
           /\ g' = Stepped("ReadFromFile", obj)
        \/ /\ et' = [et EXCEPT !.pc = "Raised"]
           /\ g' = [Stepped("ReadFromFile", obj) EXCEPT !.raisedIn = "ReadFromFile"]
  /\ UNCHANGED <<env, config, cdb, em, containers, h, reg>>

\* try { TransformPoints(); } catch ( itk::ExceptionObject & ) { the error is
\* printed; "transformix continues anyway with resampling" }
ApplyTransformPoints ==
  /\ et.pc = "TransformPoints"
  /\ et' = [et EXCEPT !.pc = "Resample"]
  /\ \/ g' = Stepped("TransformPoints", "Transform")
     \/ g' = [Stepped("TransformPoints", "Transform")
                EXCEPT !.caught = TRUE, !.raisedIn = "TransformPoints"]
  /\ UNCHANGED <<env, config, cdb, em, containers, h, reg>>

\* if ( GetMovingImage() != 0 ) WriteResultImage( "<out>result.<format>" );
\* return 0;
ApplyResample ==
  /\ et.pc = "Resample"
  /\ IF et.images["MovingImage"] # "absent"
     THEN \/ /\ et' = [et EXCEPT !.pc = "Returned", !.ret = ApplyReturn(g.caught)]
             /\ g' = Stepped("WriteResultImage", "Resampler")
          \/ /\ et' = [et EXCEPT !.pc = "Raised"]
             /\ g' = [Stepped("WriteResultImage", "Resampler")
                        EXCEPT !.raisedIn = "WriteResultImage"]
     ELSE /\ et' = [et EXCEPT !.pc = "Returned", !.ret = ApplyReturn(g.caught)]
          /\ UNCHANGED g
  /\ UNCHANGED <<env, config, cdb, em, containers, h, reg>>

NextApply ==
  \/ ApplyConfigure
  \/ ApplyValidate
  \/ ApplyCheckValidate
  \/ ApplyInput
  \/ ApplyReadFromFile
  \/ ApplyTransformPoints
  \/ ApplyResample

SpecApply == InitApply /\ [][NextApply]_vars

-----------------------------------------------------------------------------
(* The names of the transform parameter files written by AfterEachIteration. *)

\* unsigned int border = 1000000;
Border == 1000000

RECURSIVE Decimal(_)
\* operator<< of an unsigned int: its decimal digits, most significant first.
Decimal(n) == IF n < 10 THEN <<n>> ELSE Append(Decimal(n \div 10), n % 10)

\* Six zeros whatever the counter is.
ZerosAlwaysSix(counter, border) == <<0, 0, 0, 0, 0, 0>>

RECURSIVE Zeros(_, _)
\* while ( border > 1 ) { if ( counter < border ) { << "0"; border /= 10; }
\* else border = 1; }
Zeros(counter, border) ==
  IF border > 1 /\ counter < border
  THEN <<0>> \o Zeros(counter, border \div 10)
  ELSE <<>>

\* makeIterationString: the zeros, then the counter.
MakeIterationString(counter) == Zeros(counter, Border) \o Decimal(counter)

\* The name without the resolution level.
IterationFileNameWithoutLevel(out, elastixLevel, level, counter) ==
  <<out, "TransformParameters.", Decimal(elastixLevel), ".R", <<>>,
    ".It", MakeIterationString(counter), ".txt">>

\* <out>TransformParameters.<elastixLevel>.R<level>.It<iteration string>.txt
IterationFileName(out, elastixLevel, level, counter) ==
  <<out, "TransformParameters.", Decimal(elastixLevel), ".R", Decimal(level),
    ".It", MakeIterationString(counter), ".txt">>

\* AfterEachResolution: makeFileName << <out> << "TransformParameters."
\* << GetElastixLevel() << ".R" << GetCurrentLevel() << ".txt".
ResolutionFileName(out, elastixLevel, level) ==
  <<out, "TransformParameters.", Decimal(elastixLevel), ".R", Decimal(level), ".txt">>

\* AfterRegistration: makeFileName << <out> << "TransformParameters."
\* << GetElastixLevel() << ".txt".
FinalFileName(out, elastixLevel) ==
  <<out, "TransformParameters.", Decimal(elastixLevel), ".txt">>

\* The iteration counters at which a name is made: the first ones and those
\* around each power of ten up to the eighth digit (all far below the largest
\* unsigned int, so that m_IterationCounter++ does not wrap).
CounterSamples ==
  (0..MaxIter) \cup { 10^k + d : k \in 1..7, d \in {-2, -1, 0, 1} }

\* The ElastixTemplate in AfterEachIteration, after the fan-outs, with
\* WriteTransformParametersEachIteration set, at any of the counters above;
\* the file of an earlier iteration of the level has been written.
InitName ==
  /\ \E wr \in BOOLEAN :
       env = [BaseEnv EXCEPT !.writeEachIteration = TRUE, !.writeEachResolution = wr]
  /\ config = BaseConfig
  /\ cdb = FullDb
  /\ em = EmInit
  /\ containers = [r \in Roles |-> <<>>]
  /\ \E l \in 0..(MaxLevels - 1) :
       /\ reg = [RegInit EXCEPT !.level = l, !.pc = "Optimize"]
       /\ \E c \in CounterSamples, e \in 0..1, o \in {"", "out/"} :
            \E p \in { q \in CounterSamples : q < c /\ q % 10 \in {0, 1} } \cup {c} :
              et = [pc |-> "AfterEachIteration", iterationCounter |-> c,
                    observers |-> RunObservers, finalTransform |-> NoLabel,
                    images |-> [k \in KindSet |-> "loaded"], dummy |-> 0,
                    currentFile |-> NoFile, out |-> o, elastixLevel |-> e,
                    named |-> [kind |-> "None", counter |-> 0, level |-> 0],
                    written |-> IF p < c
                                THEN << [kind |-> "It", name |-> IterationFileName(o, e, l, p)] >>
                                ELSE <<>>]
  /\ h = HInit
  /\ g = GInit

\* The end of AfterEachIteration: the parameter file of this iteration is
\* named and written, then m_IterationCounter++.
NameIteration ==
  /\ et.pc = "AfterEachIteration"
  /\ g.cnt < MaxIter
  /\ et' = [et EXCEPT !.currentFile = IterationFileName(et.out, et.elastixLevel, reg.level,
                                                        et.iterationCounter),
                      !.named = [kind |-> "It", counter |-> et.iterationCounter,
                                 level |-> reg.level],
                      !.written = Append(@, [kind |-> "It",
                                             name |-> IterationFileName(et.out, et.elastixLevel,
                                                                        reg.level,
                                                                        et.iterationCounter)]),
                      !.iterationCounter = @ + 1]
  /\ g' = [g EXCEPT !.cnt = @ + 1]
  /\ UNCHANGED <<env, config, cdb, em, containers, h, reg>>

\* The end of AfterEachResolution: the parameter file of the level is named
\* and written if WriteTransformParametersEachResolution.
NameResolution ==
  /\ et.pc = "AfterEachIteration"
  /\ g.cnt > 0
  /\ et' = IF env.writeEachResolution
           THEN [et EXCEPT !.pc = "AfterEachResolution",
                           !.currentFile = ResolutionFileName(et.out, et.elastixLevel, reg.level),
                           !.named = [kind |-> "R", counter |-> 0, level |-> reg.level],
                           !.written = Append(@, [kind |-> "R",
                                                  name |-> ResolutionFileName(et.out,
                                                                              et.elastixLevel,
                                                                              reg.level)])]
           ELSE [et EXCEPT !.pc = "AfterEachResolution"]
  /\ UNCHANGED <<env, config, cdb, em, containers, h, reg, g>>

\* BeforeEachResolution of the next level: m_IterationCounter = 0.
NameNextLevel ==
  /\ et.pc = "AfterEachResolution"
  /\ reg.level + 1 < MaxLevels
  /\ reg' = [reg EXCEPT !.level = @ + 1]
  /\ et' = [et EXCEPT !.pc = "AfterEachIteration",
                      !.iterationCounter = ResetIterationCounter(@)]
  /\ g' = [g EXCEPT !.cnt = 0]
  /\ UNCHANGED <<env, config, cdb, em, containers, h>>

\* The start of AfterRegistration: the final parameter file is named and
\* written.
NameFinal ==
  /\ et.pc = "AfterEachResolution"
  /\ et' = [et EXCEPT !.pc = "AfterRegistration",
                      !.currentFile = FinalFileName(et.out, et.elastixLevel),
                      !.named = [kind |-> "Final", counter |-> 0, level |-> 0],
                      !.written = Append(@, [kind |-> "Final",
                                             name |-> FinalFileName(et.out, et.elastixLevel)])]
  /\ UNCHANGED <<env, config, cdb, em, containers, h, reg, g>>

NextName == NameIteration \/ NameResolution \/ NameNextLevel \/ NameFinal

SpecName == InitName /\ [][NextName]_vars

-----------------------------------------------------------------------------
(* MultiInputRandomCoordinateSampler::BeforeEachResolution: the parameters   *)
(* the sampler reads at the start of each resolution level.                  *)

\* The image dimensions the sampler is instantiated for.
SamplerDimensions == {2, 3}

\* The entry read with the level added to the axis.
EntryNumberLevelPlusAxis(level, dimension, i) == level + i

\* The entry of SampleRegionSize read for axis i:
\* level * InputImageDimension + i. The levels are few, so the unsigned
\* product does not wrap.
EntryNumber(level, dimension, i) == level * dimension + i

\* ReadParameter( value, name, label, entry_nr, 0 ): the entry entry_nr of the
\* parameter, counted from 0, when the parameter file declares it; the value
\* is kept otherwise.
ReadParameter(value, entries, entry_nr) ==
  IF entry_nr < Len(entries) THEN entries[entry_nr + 1] ELSE value

\* The default estimate, from the extent (size - 1) * spacing of each axis:
\* sampleRegionSize[i] = min( maxthird, extent[i] ), maxthird the largest third
\* of an extent. The extents of the model are multiples of 3.
SampleRegionDefault(extent) ==
  LET thirds == { extent[i] \div 3 : i \in DOMAIN extent }
      maxthird == CHOOSE m \in thirds : \A t \in thirds : t <= m
  IN [i \in DOMAIN extent |-> IF maxthird < extent[i] THEN maxthird ELSE extent[i]]

\* The SampleRegionSize entries a parameter file declares: n of them, entry k
\* holding 100 + k.
DeclaredSizes(n) == [k \in 1..n |-> 100 + (k - 1)]

\* The sampler before its first BeforeEachResolution.
SamplerInit ==
  [pc |-> "Idle", level |-> 0, i |-> 0, numberOfSamples |-> 0, splineOrder |-> 0,
   useRandomSampleRegion |-> FALSE, sampleRegionSize |-> <<>>, set |-> <<>>]

InitSampler ==
  /\ env = BaseEnv
  /\ cdb = FullDb
  /\ em = EmInit
  /\ containers = [r \in Roles |-> <<>>]
  /\ h = HInit
  /\ \E d \in SamplerDimensions, n \in 0..(MaxLevels * 3) :
       \E use \in [1..MaxLevels -> BOOLEAN], extent \in [1..d -> {3, 12}] :
         config = [dimension |-> d, sizes |-> DeclaredSizes(n), useRandom |-> use,
                   extent |-> extent, samples |-> <<2000>>, order |-> <<3, 2>>]
  /\ \E l \in 1..MaxLevels : reg = [RegInit EXCEPT !.levels = l, !.pc = "Level"]
  /\ et = SamplerInit
  /\ g = [reads |-> <<>>]

\* BeforeEachResolution up to the test of useRandomSampleRegion: the level is
\* the current level of the registration; the three parameters with one value
\* per level are read at entry level; the default region size is estimated.
SamplerEnter ==
  /\ et.pc = "Idle"
  /\ LET level == reg.level
         use == ReadParameter(FALSE, config.useRandom, level)
     IN et' = [et EXCEPT
                 !.level = level,
                 !.numberOfSamples = ReadParameter(5000, config.samples, level),
                 !.splineOrder = ReadParameter(1, config.order, level),
                 !.useRandomSampleRegion = use,
                 !.sampleRegionSize = IF use THEN SampleRegionDefault(config.extent) ELSE <<>>,
                 !.i = 0,
                 !.pc = IF use THEN "ReadAxis" ELSE "Done"]
  /\ UNCHANGED <<env, config, cdb, em, containers, h, reg, g>>

\* One pass of the loop "Read user's choice".
SamplerReadAxis ==
  /\ et.pc = "ReadAxis"
  /\ et.i < config.dimension
  /\ LET entry == EntryNumber(et.level, config.dimension, et.i)
         value == ReadParameter(et.sampleRegionSize[et.i + 1], config.sizes, entry)
     IN /\ et' = [et EXCEPT !.sampleRegionSize[et.i + 1] = value, !.i = @ + 1]
        /\ g' = [g EXCEPT !.reads = Append(@, [level |-> reg.level, axis |-> et.i,
                                                entry |-> entry, value |-> value])]
  /\ UNCHANGED <<env, config, cdb, em, containers, h, reg>>

\* this->SetSampleRegionSize( sampleRegionSize );
SamplerSet ==
  /\ et.pc = "ReadAxis"
  /\ et.i = config.dimension
  /\ et' = [et EXCEPT !.set = et.sampleRegionSize, !.pc = "Done"]
  /\ UNCHANGED <<env, config, cdb, em, containers, h, reg, g>>

\* The registration goes to its next level and BeforeEachResolution is called
\* again.
SamplerNextLevel ==
  /\ et.pc = "Done"
  /\ reg.level + 1 < reg.levels
  /\ reg' = [reg EXCEPT !.level = @ + 1]
  /\ et' = [et EXCEPT !.pc = "Idle"]
  /\ UNCHANGED <<env, config, cdb, em, containers, h, g>>

NextSampler == SamplerEnter \/ SamplerReadAxis \/ SamplerSet \/ SamplerNextLevel

SpecSampler == InitSampler /\ [][NextSampler]_vars

-----------------------------------------------------------------------------
\* Properties of the staged execution.

\* The number of targets of one fan-out: the Configuration and every component.
FanTargets == 1 + Len(containers["Registration"]) + Len(containers["Transform"])
                + Len(containers["ImageSampler"]) + Len(containers["Metric"])
                + Len(containers["Interpolator"]) + Len(containers["Optimizer"])
                + Len(containers["FixedImagePyramid"]) + Len(containers["MovingImagePyramid"])
                + Len(containers["ResampleInterpolator"]) + Len(containers["Resampler"])

\* The stages that fan out over the components.
FanStages == {"BeforeAll", "BeforeRegistration", "BeforeEachResolution",
              "AfterEachIteration", "AfterEachResolution", "AfterRegistration"}

\* The handlers of the registration loop form one stage of Run.
LoopStages == {"BeforeEachResolution", "AfterEachIteration", "AfterEachResolution"}

StageOf(fn) == IF fn \in LoopStages THEN "Loop" ELSE fn

\* The stage that may begin after each stage of Run.
RunSuccession ==
  { <<"None", "BeforeAll">>, <<"BeforeAll", "Load">>, <<"Load", "BeforeRegistration">>,
    <<"BeforeRegistration", "Loop">>, <<"Loop", "Loop">>, <<"Loop", "AfterRegistration">> }

\* A stage begins in this step: a handler is entered or the images are read.
StageBegins ==
  \/ h'.phase = "Own" /\ h.phase # "Own"
  \/ g'.stage = "Load" /\ g.stage # "Load"

\* C1: the stages of Run begin in the order BeforeAll, image and mask loading,
\* BeforeRegistration, registration loop, AfterRegistration; when a stage
\* begins no handler is in progress and both fan-outs of the stage before it
\* have covered the Configuration and every component.
C1_StagesInOrder ==
  [][ StageBegins =>
        /\ <<StageOf(g.stage), StageOf(g'.stage)>> \in RunSuccession
        /\ h.fn = "None"
        /\ g.stage \in FanStages => g.cnt = 2 * FanTargets /\ Len(g.calls) = FanTargets
    ]_vars

\* AfterRegistration begins in a run with two instances of a role, after the
\* loop stage.
C1_Witness ==
  /\ g.stage = "AfterRegistration"
  /\ h.phase = "Own"
  /\ Len(containers["Metric"]) = 2
  /\ g.nAER >= 1

\* C2: the resolution callbacks alternate starting with BeforeEachResolution,
\* the i-th of each kind observes level i (from 0), and when StartRegistration
\* has returned over L levels each of them has run exactly L times.
\* The events come from the registration driver.
C2_ResolutionCallbacks ==
  /\ g.nAER <= g.nBER
  /\ g.nBER <= g.nAER + 1
  /\ h.fn = "BeforeEachResolution" =>
       h.level = g.nBER - 1 /\ reg.level = h.level /\ g.nAER = g.nBER - 1
  /\ h.fn = "AfterEachResolution" =>
       h.level = g.nAER - 1 /\ reg.level = h.level /\ g.nBER = g.nAER
  /\ reg.pc = "Done" => g.nBER = reg.levels /\ g.nAER = reg.levels

\* StartRegistration has returned from a run over two or more levels.
C2_Witness ==
  /\ reg.pc = "Done"
  /\ reg.levels >= 2
  /\ g.nBER = reg.levels
  /\ g.nAER = reg.levels

\* C3: AfterEachIteration runs once per optimizer step; the iteration counter
\* is 0 from BeforeEachResolution until the first step of the level, and at the
\* end of a level of n steps it is n, whatever it was before the level.
C3_IterationCounter ==
  /\ h.fn = "BeforeEachResolution" => et.iterationCounter = 0
  /\ h.fn = "AfterEachIteration" =>
       g.nAEI = reg.steps /\ et.iterationCounter = reg.steps - 1
  /\ DriverRuns /\ reg.pc \in {"Optimize", "LevelEnd"} =>
       g.nAEI = reg.steps /\ et.iterationCounter = reg.steps
  /\ h.fn = "AfterEachResolution" =>
       g.nAEI = reg.steps /\ et.iterationCounter = reg.steps

\* A later level ends after one step, the level before it having ended with
\* the counter at two.
C3_Witness ==
  /\ h.fn = "AfterEachResolution"
  /\ reg.level >= 1
  /\ g.before = 2
  /\ reg.steps = 1
  /\ et.iterationCounter = 1

\* The position of a fan-out target in the traversal: the Configuration, then
\* the roles Registration, Transform, ImageSampler, Metric, Interpolator,
\* Optimizer, FixedImagePyramid, MovingImagePyramid, ResampleInterpolator,
\* Resampler.
TraversalRank(role) ==
  CASE role = "Configuration" -> 0
    [] role = "Registration" -> 1
    [] role = "Transform" -> 2
    [] role = "ImageSampler" -> 3
    [] role = "Metric" -> 4
    [] role = "Interpolator" -> 5
    [] role = "Optimizer" -> 6
    [] role = "FixedImagePyramid" -> 7
    [] role = "MovingImagePyramid" -> 8
    [] role = "ResampleInterpolator" -> 9
    [] role = "Resampler" -> 10

\* The calls are on existing targets, each role from index 0 with increasing
\* index, the roles in traversal order.
InTraversalOrder(calls) ==
  /\ \A i \in 1..Len(calls) :
       \/ calls[i] = <<"Configuration", 0>>
       \/ calls[i][1] \in Roles /\ calls[i][2] \in 0..(Len(containers[calls[i][1]]) - 1)
  /\ calls # <<>> => calls[1] = <<"Configuration", 0>>
  /\ \A i \in 1..(Len(calls) - 1) :
       \/ calls[i + 1][1] = calls[i][1] /\ calls[i + 1][2] = calls[i][2] + 1
       \/ TraversalRank(calls[i][1]) < TraversalRank(calls[i + 1][1]) /\ calls[i + 1][2] = 0

\* The calls reach the Configuration and every component exactly once.
CoversAll(calls) ==
  /\ Len(calls) = FanTargets
  /\ \E i \in 1..Len(calls) : calls[i] = <<"Configuration", 0>>
  /\ \A role \in Roles : \A k \in 0..(Len(containers[role]) - 1) :
       \E i \in 1..Len(calls) : calls[i] = <<role, k>>
  /\ \A i, j \in 1..Len(calls) : calls[i] = calls[j] => i = j

\* C4: the calls of every fan-out follow the traversal order, and a fan-out
\* that has returned has called the Configuration and every component exactly
\* once.
C4_FanOutOrder ==
  /\ InTraversalOrder(g.calls)
  /\ h.phase = "Fan" => g.cnt - Len(g.calls) = FanTargets
  /\ h.phase = "None" /\ g.stage \in FanStages => CoversAll(g.calls) /\ g.cnt = 2 * FanTargets

\* BeforeRegistration has returned in a run with two transforms and an image
\* sampler.
C4_Witness ==
  /\ h.phase = "None"
  /\ g.stage = "BeforeRegistration"
  /\ Len(containers["Transform"]) = 2
  /\ Len(containers["ImageSampler"]) >= 1
  /\ CoversAll(g.calls)

-----------------------------------------------------------------------------
\* Properties of the component creation and of the value of ElastixMain::Run.

\* The creation of the container of some mandatory role has failed.
MandatoryCreationFailed == \E role \in g.failed : Mandatory(role)

\* C5: when the creation of a mandatory role's container has failed,
\* ElastixMain::Run does not call the Run of the ElastixTemplate and returns a
\* nonzero value, whatever the roles created after it do.
C5_MandatoryFailureStopsRun ==
  MandatoryCreationFailed =>
    /\ ~g.ranElastix
    /\ em.pc = "Returned" => em.ret # 0

\* C6: a call of CreateComponents leaves the error code as it was when it
\* meets no error, sets it to 1 when it meets one, and never turns a nonzero
\* error code into 0.
C6_ErrorCodeKept ==
  g.lastCreate.key # "" =>
    /\ g.lastCreate.errOut = IF g.lastCreate.error THEN 1 ELSE g.lastCreate.errIn
    /\ g.lastCreate.errIn # 0 => g.lastCreate.errOut # 0

\* No component refers to the ElastixTemplate.
Decoupled == \A role \in Roles : \A k \in 1..Len(containers[role]) : ~containers[role][k].elx

\* C7: when the Run of the ElastixTemplate has ended, by its return for success,
\* by its return of a nonzero BeforeAll value or by an error raised in
\* BeforeRegistration, in the registration or in AfterRegistration, no component
\* refers to the ElastixTemplate.
C7_DecoupledAfterRun ==
  (et.pc = "Returned" \/ (et.pc = "Raised" /\ g.stage \in FanStages \ {"BeforeAll"}))
    => Decoupled

\* Every step of ElastixMain::Run has succeeded.
RunSucceeded ==
  /\ g.failed = {}
  /\ g.ranElastix
  /\ et.pc = "Returned"
  /\ et.dummy = 0

\* C8: ElastixMain::Run returns 0 when every step has succeeded and 1 on every
\* failure, a nonzero BeforeAll value of any size included.
C8_ReturnsZeroOrOne ==
  em.pc = "Returned" => em.ret = IF RunSucceeded THEN 0 ELSE 1

\* C9: when BeforeAll has returned a nonzero value, Run returns without reading
\* an image or mask, without adding the observers and without running
\* BeforeRegistration, the registration or AfterRegistration.
C9_BeforeAllStops ==
  et.dummy # 0 =>
    /\ et.pc \in {"CheckBeforeAll", "Returned"}
    /\ g.loads = {}
    /\ \A k \in KindSet : et.images[k] # "loaded"
    /\ g.stage = "BeforeAll"
    /\ h.fn = "None"
    /\ et.observers = <<>>
    /\ reg.pc = "Idle"
    /\ g.nBER = 0

\* ElastixMain::Run has returned after a nonzero BeforeAll value, no image
\* having been supplied by the caller.
C9_Witness ==
  /\ et.dummy # 0
  /\ em.pc = "Returned"
  /\ em.supplied = {}
  /\ et.pc = "Returned"

\* C10: a call of CreateComponents for a role without a configured name and
\* without a default creates no component and yields an empty container; for a
\* mandatory role it reports an error and sets the error code to 1, for a role
\* that is not mandatory it reports no error and does not set the error code.
C10_NoNameNoDefault ==
  g.lastCreate.key # "" /\ ~g.lastCreate.found /\ g.lastCreate.default = NoName =>
    /\ g.lastCreate.size = 0
    /\ g.lastCreate.attempts = 0
    /\ containers[g.lastCreate.key] = <<>>
    /\ g.lastCreate.mandatory => g.lastCreate.error /\ g.lastCreate.errOut = 1
    /\ ~g.lastCreate.mandatory =>
         ~g.lastCreate.error /\ (g.lastCreate.errIn = 0 => g.lastCreate.errOut = 0)

\* The Metric, mandatory, has no name and no default, after the ImageSampler,
\* not mandatory, had neither and got an empty container without an error.
C10_Witness ==
  /\ g.lastCreate.key = "Metric"
  /\ ~g.lastCreate.found
  /\ g.lastCreate.default = NoName
  /\ g.lastCreate.errIn = 0
  /\ g.lastCreate.errOut = 1
  /\ config["ImageSampler"][0] = NoName
  /\ containers["ImageSampler"] = <<>>
  /\ "ImageSampler" \notin g.failed

-----------------------------------------------------------------------------
\* Properties of the discovery of the instances of a role.

\* The first instance index at which the declaration of a role has no name.
FirstGap(row) ==
  CHOOSE k \in 0..(MaxInst + 2) :
    /\ k \notin DOMAIN row \/ row[k] = NoName
    /\ \A i \in 0..(k - 1) : i \in DOMAIN row /\ row[i] # NoName

\* The registry has a creator for the name under the resolved index, and the
\* creator yields an instance.
Creatable(name) == <<name, em.dbIndex>> \in cdb.creators /\ name \notin cdb.nullCreators

\* C11: for a role whose names are declared at the indices 0..K-1 (K >= 1, each
\* with a creator) and not at K, CreateComponents returns exactly K instances,
\* instance i created from the name at index i, and reads the configuration at
\* the indices 0..K only: names above the gap are neither read nor created.
C11_GapStopsDiscovery ==
  LET c == g.lastCreate
      row == config[c.key]
      K == FirstGap(row)
  IN c.key # "" /\ K >= 1 /\ (\A i \in 0..(K - 1) : Creatable(row[i])) =>
       /\ c.size = K
       /\ Len(containers[c.key]) = K
       /\ \A i \in 0..(K - 1) : containers[c.key][i + 1].name = row[i]
       /\ c.probes = [i \in 1..(K + 1) |-> i - 1]
       /\ c.attempts = K
       /\ ~c.error

\* Transform names at the indices 0 and 1, none at 2 and one at 3: the
\* container has two instances.
C11_Witness ==
  /\ g.lastCreate.key = "Transform"
  /\ config["Transform"][0] = "Known"
  /\ config["Transform"][1] = "Known"
  /\ config["Transform"][2] = NoName
  /\ config["Transform"][3] = "Known"
  /\ Len(containers["Transform"]) = 2
  /\ g.lastCreate.probes = <<0, 1, 2>>

\* C12: for a role without a name at index 0 and with a default, CreateComponents
\* makes one call of CreateComponent, for the default, reads the configuration
\* at index 0 only, and returns that one instance when the default has a
\* creator, whatever names are declared at the indices 1 and above.
C12_DefaultUsed ==
  LET c == g.lastCreate
  IN c.key # "" /\ ~c.found /\ c.default # NoName =>
       /\ c.attempts = 1
       /\ c.probes = <<0>>
       /\ c.size <= 1
       /\ Creatable(c.default) =>
            /\ c.size = 1
            /\ Len(containers[c.key]) = 1
            /\ containers[c.key][1].name = c.default
            /\ ~c.error
       /\ ~Creatable(c.default) => c.size = 0 /\ c.error

\* The Interpolator has no name at index 0 and names at the indices 1 and 2:
\* the container holds the default interpolator alone.
C12_Witness ==
  /\ g.lastCreate.key = "Interpolator"
  /\ config["Interpolator"][0] = NoName
  /\ config["Interpolator"][1] = "Known"
  /\ config["Interpolator"][2] = "Known"
  /\ Len(containers["Interpolator"]) = 1
  /\ containers["Interpolator"][1].name = "BSplineInterpolator"

-----------------------------------------------------------------------------
\* Properties of the dispatch resolution.

\* C13: when InitDBIndex has failed in a call of ElastixMain::Run, the call has
\* returned a nonzero value without calling CreateComponent or
\* CreateComponents; after a failure in the first call the ElastixMain has no
\* aggregate component and no component of any role.
C13_DispatchFailureStopsRun ==
  g.initDB = "failed" =>
    /\ em.pc = "Returned"
    /\ em.ret # 0
    /\ g.lastComponent = NoComponent
    /\ g.lastCreate = NoCreate
    /\ em.createIdx = 0
    /\ g.runs = 1 => ~em.elastix /\ \A role \in Roles : containers[role] = <<>>

\* Run has returned in its first call on a configuration that was never
\* initialised.
C13_Witness ==
  /\ g.initDB = "failed"
  /\ ~env.initialized
  /\ g.runs = 1
  /\ em.pc = "Returned"
  /\ em.ret = 1

\* The inputs of the dimension step of an image cannot give a dimension: in
\* executable mode no file is named, the header probe raises, the header
\* gives 0 or the parameter file declares another dimension than the header;
\* in library mode the parameter file declares no dimension other than 0.
DimensionUndetermined(library, arg, arg0, header, par) ==
  IF library
  THEN ~par.found \/ par.value = 0
  ELSE \/ arg = "" /\ arg0 = ""
       \/ ~header.ok
       \/ header.dim = 0
       \/ par.found /\ par.value # header.dim

\* The dimension the inputs of an image give.
DimensionGiven(library, header, par) == IF library THEN par.value ELSE header.dim

\* The pixel type the parameter file gives.
PixelTypeGiven(par) == IF par = NotFound THEN "float" ELSE par

\* The registry has no index for the image types the inputs give.
NoIndexInstalled ==
  \A t \in cdb.index :
    ~ /\ t[1] = PixelTypeGiven(env.parFixedPix)
      /\ t[2] = DimensionGiven(env.library, env.fixedHeader, env.parFixedDim)
      /\ t[3] = PixelTypeGiven(env.parMovingPix)
      /\ t[4] = DimensionGiven(env.library, env.movingHeader, env.parMovingDim)

\* C14: InitDBIndex succeeds only with both dimensions non-zero and a registry
\* index other than 0, and it fails whenever the configuration is not
\* initialised, the inputs of the fixed or of the moving image cannot give a
\* dimension, or the registry has no index for the image types.
C14_InitDBIndexOutcome ==
  g.initDB # "none" =>
    /\ g.initDB = "ok" => em.fixedDim # 0 /\ em.movingDim # 0 /\ em.dbIndex # 0
    /\ \/ ~env.initialized
       \/ DimensionUndetermined(env.library, env.argF, env.argF0, env.fixedHeader, env.parFixedDim)
       \/ DimensionUndetermined(env.library, env.argM, env.argM0, env.movingHeader, env.parMovingDim)
       \/ NoIndexInstalled
       => g.initDB = "failed"

\* C14 for the first call of Run on an ElastixMain.
C14_FirstCall ==
  g.runs = 1 => C14_InitDBIndexOutcome

-----------------------------------------------------------------------------
\* Properties of CreateComponent and of the registry.

\* The name CreateComponents passed to its last call of CreateComponent.
LastTriedName ==
  IF g.lastCreate.found
  THEN config[g.lastCreate.key][g.lastCreate.attempts - 1]
  ELSE g.lastCreate.default

\* An instance as its creator returns it: of the name asked for, without
\* label and without a reference to an ElastixTemplate.
FreshInstance(comp, name) ==
  comp # NullObject /\ comp.name = name /\ comp.label = NoLabel /\ ~comp.elx

\* C17: a call of CreateComponent(name) raises exactly when the registry has no
\* creator for the name under the resolved index or the creator yields no
\* instance; otherwise it returns a new instance of that name; no null
\* handle is ever returned or stored in a container.
C17_CreateOrRaise ==
  /\ g.lastComponent.name # "" =>
       /\ g.lastComponent.ok <=>
            /\ <<g.lastComponent.name, g.lastComponent.index>> \in cdb.creators
            /\ g.lastComponent.name \notin cdb.nullCreators
       /\ g.lastComponent.ok =>
            FreshInstance(g.lastComponent.comp, g.lastComponent.name) /\ em.elastix
       /\ ~g.lastComponent.ok => em.pc = "Returned" /\ em.ret = 1
  /\ \A role \in Roles : \A k \in 1..Len(containers[role]) :
       containers[role][k] # NullObject
  /\ g.lastCreate.key # "" /\ g.lastCreate.attempts >= 1 =>
       /\ g.lastCreate.error <=> ~Creatable(LastTriedName)
       /\ g.lastCreate.size = g.lastCreate.attempts - (IF g.lastCreate.error THEN 1 ELSE 0)

\* CreateComponent("Elastix") has raised because the creator of the aggregate
\* component yielded no instance.
C17_Witness ==
  /\ g.lastComponent.name = "Elastix"
  /\ <<"Elastix", g.lastComponent.index>> \in cdb.creators
  /\ "Elastix" \in cdb.nullCreators
  /\ ~g.lastComponent.ok
  /\ em.pc = "Returned"

\* C18: every installed image type resolves to its own index, the index
\* InitDBIndex stores is the one installed for the image types it resolved,
\* and under it every component whose names all have a creator that yields an
\* instance is created: the aggregate component and every instance of a role.
C18_InstalledTypesCreate ==
  /\ \A t \in cdb.index : t[5] # 0 /\ GetIndex(cdb, t[1], t[2], t[3], t[4]) = t[5]
  /\ g.initDB = "ok" =>
       <<em.fixedPix, em.fixedDim, em.movingPix, em.movingDim, em.dbIndex>> \in cdb.index
  /\ g.lastComponent.name # "" /\ Creatable(g.lastComponent.name) =>
       g.lastComponent.ok /\ FreshInstance(g.lastComponent.comp, g.lastComponent.name)
  /\ g.lastCreate.key # "" /\ g.lastCreate.attempts >= 1 /\ Creatable(LastTriedName) =>
       /\ ~g.lastCreate.error
       /\ Len(containers[g.lastCreate.key]) = g.lastCreate.attempts
       /\ containers[g.lastCreate.key][g.lastCreate.attempts].name = LastTriedName

\* Two 3D images: the second installed index is resolved and the aggregate
\* component and a Transform are created under it.
C18_Witness ==
  /\ em.fixedDim = 3
  /\ em.movingDim = 3
  /\ em.dbIndex = 2
  /\ g.lastComponent.ok
  /\ g.lastCreate.key = "Transform"
  /\ ~g.lastCreate.error
  /\ Len(containers["Transform"]) = 1

-----------------------------------------------------------------------------
\* Properties of the end of the run.

\* An error was raised in BeforeRegistration or in the registration loop.
RaisedInRegistration ==
  /\ et.pc = "Raised"
  /\ g.stage \in {"BeforeRegistration"} \cup LoopStages

\* C19: after an error raised in BeforeRegistration or in the registration
\* loop the ElastixTemplate takes no further step: no handler runs (so no
\* AfterRegistration), the loop is not resumed, no final transform is
\* designated; ElastixMain::Run returns 1 and has no final transform.
C19_ErrorAbortsRun ==
  /\ [](RaisedInRegistration =>
          /\ h.phase = "Raised"
          /\ et.finalTransform = NoLabel
          /\ em.pc \in {"AfterRun", "Returned"}
          /\ em.errorCode = 1
          /\ em.pc = "Returned" => em.ret = 1 /\ em.finalTransform = NoLabel)
  /\ [][RaisedInRegistration =>
          /\ UNCHANGED <<et, h, g, reg, containers>>
          /\ em.pc = "AfterRun" /\ em'.pc = "Returned"]_vars

\* ElastixMain::Run has returned after an error raised in AfterEachIteration.
C19_Witness ==
  /\ em.pc = "Returned"
  /\ em.ret = 1
  /\ et.pc = "Raised"
  /\ g.stage = "AfterEachIteration"
  /\ g.nAEI > 0

\* C20: a final transform is designated only by the return of a run whose
\* AfterRegistration has ended with both of its fan-outs complete; it is the
\* Transform instance 0 however many Transform instances there are, and after
\* a successful ElastixMain::Run the ElastixMain holds that same instance.
C20_FinalTransformIsFirst ==
  /\ et.finalTransform # NoLabel =>
       /\ et.finalTransform = <<"Transform", 0>>
       /\ et.pc = "Returned"
       /\ g.stage = "AfterRegistration"
       /\ h.fn = "None"
       /\ g.cnt = 2 * FanTargets
       /\ Len(g.calls) = FanTargets
  /\ RunSucceeded => et.finalTransform = <<"Transform", 0>>
  /\ em.pc = "Returned" /\ RunSucceeded =>
       /\ em.ret = 0
       /\ em.finalTransform = et.finalTransform

\* ElastixMain::Run has returned after a successful run with two Transform
\* instances.
C20_Witness ==
  /\ em.pc = "Returned"
  /\ RunSucceeded
  /\ Len(containers["Transform"]) = 2
  /\ em.finalTransform = <<"Transform", 0>>

-----------------------------------------------------------------------------
\* Properties of GetComponentDatabase.

\* C15: with several threads calling GetComponentDatabase, at most one
\* population pass is started and at most one thread runs the initialiser;
\* every caller that has got the registry got it after that pass had
\* completed, and all of them got the same instance.
C15_PopulatedOnce ==
  /\ cdb.passes <= 1
  /\ Cardinality({t \in Threads : cdb.thr[t].pc = "Init"}) <= 1
  /\ \A t \in Threads :
       cdb.thr[t].pc \in {"Initialised", "Got", "Used"} => cdb.guard = "done"
  /\ \A t \in Threads :
       cdb.thr[t].pc \in {"Got", "Used"} =>
         cdb.thr[t].complete /\ cdb.thr[t].got = cdb.instance
  /\ \A t, u \in Threads :
       cdb.thr[t].pc \in {"Got", "Used"} /\ cdb.thr[u].pc \in {"Got", "Used"} =>
         cdb.thr[t].got = cdb.thr[u].got

\* A thread that called while another thread was initialising the static has
\* got the registry, as has the initialising thread.
C15_Witness ==
  \E t, u \in Threads :
    /\ t # u
    /\ cdb.thr[t].waited
    /\ cdb.thr[t].pc = "Got"
    /\ cdb.thr[u].pc = "Got"
    /\ ~cdb.thr[u].waited
    /\ cdb.thr[t].got = cdb.thr[u].got
    /\ cdb.passes = 1

\* C16: after a population pass that reported a failure the static is
\* initialised with the registry all the same: every caller gets it, a
\* component that was installed is created from it, and one that was not
\* installed makes CreateComponent raise.
C16_PartialPopulationUsable ==
  cdb.guard = "done" /\ cdb.loadResult # 0 =>
    /\ cdb.instance # 0
    /\ cdb.index = SupportedImageTypes
    /\ \A t \in Threads : cdb.thr[t].pc \in {"Got", "Used"} => cdb.thr[t].got # 0
    /\ \A t \in Threads :
         cdb.thr[t].pc = "Used" =>
           /\ cdb.thr[t].res.index # 0
           /\ cdb.thr[t].res.ok <=> <<cdb.thr[t].res.name, cdb.thr[t].res.index>> \in cdb.creators

\* After a pass that failed to install the aggregate component but installed
\* another one, one caller has created the installed component and another
\* caller's CreateComponent for the aggregate component has raised.
C16_Witness ==
  /\ cdb.loadResult # 0
  /\ \E t, u \in Threads :
       /\ cdb.thr[t].pc = "Used"
       /\ cdb.thr[t].res.name = "Known"
       /\ cdb.thr[t].res.ok
       /\ cdb.thr[u].pc = "Used"
       /\ cdb.thr[u].res.name = "Elastix"
       /\ ~cdb.thr[u].res.ok

-----------------------------------------------------------------------------
\* Properties of the reading of the images and masks.

\* The images and masks were read, or an error was raised while reading them.
LoadingDone == g.ranElastix /\ g.stage \notin {"None", "BeforeAll"}

\* C23: the loader is invoked only for a container that the caller did not
\* supply; a supplied container is the caller's before and after the loading
\* step, whatever the other three containers are; a container that was not
\* supplied is absent until the loading step.
C23_LoadOnlyAbsent ==
  /\ g.loads \cap em.supplied = {}
  /\ g.ranElastix =>
       \A k \in KindSet :
         /\ k \in em.supplied => et.images[k] = "supplied"
         /\ k \notin em.supplied => et.images[k] \in {"absent", "loaded"}
         /\ et.images[k] = "loaded" => k \in g.loads
         /\ ~LoadingDone => k \notin g.loads
  /\ LoadingDone /\ g.stage # "Load" => g.loads = KindSet \ em.supplied

\* The images and masks were read in a run whose caller supplied the moving
\* image and the fixed mask only.
C23_Witness ==
  /\ em.supplied = {"MovingImage", "FixedMask"}
  /\ et.pc = "BeforeRegistration"
  /\ g.loads = {"FixedImage", "MovingMask"}
  /\ et.images["MovingImage"] = "supplied"
  /\ et.images["FixedImage"] = "loaded"

-----------------------------------------------------------------------------
\* Properties of the instances other than instance 0.

\* A Registration or Optimizer instance with index 1 or above.
IsExtraDriver(c) == c[1] \in {"Registration", "Optimizer"} /\ c[2] >= 1

\* C24 as stated: in the stages of the registration loop no handler of a
\* Registration or Optimizer instance with index 1 or above is called.
C24_ExtraInstancesSkipLoop ==
  g.stage \in LoopStages =>
    \A i \in 1..Len(g.calls) : ~IsExtraDriver(g.calls[i])

\* C24, amended: every Registration and Optimizer instance, those with index 1
\* and above included, receives the handlers of every stage, the stages of the
\* registration loop included: a fan-out that has returned has called each
\* instance exactly once.
C24_ExtraInstancesGetAllStages ==
  h.fn \in FanStages /\ h.phase \in {"FanBase", "Fan"}
    /\ Len(g.calls) = Len(FanOrder(h.fn, containers)) =>
      \A role \in {"Registration", "Optimizer"} :
        \A k \in 0..(Len(containers[role]) - 1) :
          Cardinality({ i \in 1..Len(g.calls) : g.calls[i] = <<role, k>> }) = 1

\* The fan-out of the AfterEachIteration handlers has returned in a run with
\* two Optimizer instances.
C24_Witness ==
  /\ h.fn = "AfterEachIteration"
  /\ h.phase = "Fan"
  /\ Len(g.calls) = FanTargets
  /\ Len(containers["Optimizer"]) = 2
  /\ \E i \in 1..Len(g.calls) : g.calls[i] = <<"Optimizer", 1>>

\* C25: a handler of BeforeEachResolution runs only for an IterationEvent of
\* Registration 0, one of AfterEachIteration only for an IterationEvent of
\* Optimizer 0 and one of AfterEachResolution only for an EndEvent of
\* Optimizer 0; after any other event of any instance no command is due and no
\* handler runs.
C25_OnlyInstanceZeroDrives ==
  /\ h.fn = "BeforeEachResolution" =>
       reg.event = [subject |-> <<"Registration", 0>>, event |-> "IterationEvent"]
  /\ h.fn = "AfterEachIteration" =>
       reg.event = [subject |-> <<"Optimizer", 0>>, event |-> "IterationEvent"]
  /\ h.fn = "AfterEachResolution" =>
       reg.event = [subject |-> <<"Optimizer", 0>>, event |-> "EndEvent"]
  /\ et.pc = "InRegistration" /\ reg.event # NoEvent
       /\ ~(\/ reg.event = [subject |-> <<"Registration", 0>>, event |-> "IterationEvent"]
            \/ reg.event = [subject |-> <<"Optimizer", 0>>, event |-> "IterationEvent"]
            \/ reg.event = [subject |-> <<"Optimizer", 0>>, event |-> "EndEvent"]) =>
         reg.todo = <<>> /\ h.fn = "None"

\* Optimizer 1 has invoked an IterationEvent in the first level of the
\* registration, after a step of Optimizer 0.
C25_Witness ==
  /\ et.pc = "InRegistration"
  /\ reg.event = [subject |-> <<"Optimizer", 1>>, event |-> "IterationEvent"]
  /\ reg.pc = "Optimize"
  /\ reg.steps = 1
  /\ g.nAEI = 1

-----------------------------------------------------------------------------
\* Properties of the file names.

RECURSIVE DigitsValue(_)
\* The number a sequence of decimal digits denotes.
DigitsValue(d) ==
  IF d = <<>> THEN 0 ELSE 10 * DigitsValue(SubSeq(d, 1, Len(d) - 1)) + d[Len(d)]

\* C27: the name made for an iteration counter c < 10^7 is
\* <out>TransformParameters.<run level>.R<resolution level>.It<d>.txt where d
\* has exactly seven decimal digits and denotes c.
C27_SevenDigits ==
  et.named.kind = "It" /\ et.named.counter < 10^7 =>
    /\ Len(et.currentFile) = 8
    /\ et.currentFile[1] = et.out
    /\ et.currentFile[2] = "TransformParameters."
    /\ DigitsValue(et.currentFile[3]) = et.elastixLevel
    /\ et.currentFile[4] = ".R"
    /\ DigitsValue(et.currentFile[5]) = et.named.level
    /\ et.currentFile[6] = ".It"
    /\ Len(et.currentFile[7]) = 7
    /\ \A i \in 1..7 : et.currentFile[7][i] \in 0..9
    /\ DigitsValue(et.currentFile[7]) = et.named.counter
    /\ et.currentFile[8] = ".txt"

\* The name of iteration 99999 was made: two zeros and five digits.
C27_Witness ==
  /\ et.named.kind = "It"
  /\ et.named.counter = 99999
  /\ et.currentFile[7] = <<0, 0, 9, 9, 9, 9, 9>>

-----------------------------------------------------------------------------
\* Properties of two runs with the same configuration and inputs.

IsPrefix(a, b) == Len(a) <= Len(b) /\ \A i \in 1..Len(a) : a[i] = b[i]

\* The second run has ended as the first one did, after the same invocations.
SameResult ==
  /\ IsPrefix(g.trace, g.first.trace)
  /\ em.pc \in {"Returned", "Crashed"} =>
       /\ em.pc = g.first.pc
       /\ em.ret = g.first.ret
       /\ em.finalTransform = g.first.finalTransform
       /\ g.trace = g.first.trace

-----------------------------------------------------------------------------
\* Properties of the wiring of the components.

\* A handler of ElastixTemplate::Run is running: it is about to call, or is
\* calling, the handlers of the components.
HandlerRuns == h.phase \in {"Own", "FanBase", "Fan"}

\* ApplyTransform is past its ConfigureComponents and has not returned: it is
\* about to call, or is calling, an operation of a component.
ApplyCalls == et.pc \in {"Validate", "Input", "Read", "TransformPoints", "Resample"}

-----------------------------------------------------------------------------
\* Properties of ApplyTransform.

\* The operations an ApplyTransform call has made, in call order.
StepOps == [i \in 1..Len(g.steps) |-> g.steps[i][1]]

\* The positions ApplyTransform can be at.
ApplyPcs ==
  {"Configure", "Validate", "Input", "Read", "TransformPoints", "Resample", "Returned", "Raised"}

\* C21: in no state of an ApplyTransform call is a handler of the registration
\* stages entered or called, is the registration started or an observer
\* added, or is the iteration counter changed.
C21_NoRegistrationInApply ==
  /\ et.pc \in ApplyPcs
  /\ h = HInit
  /\ reg = RegInit
  /\ et.observers = <<>>
  /\ et.iterationCounter = 0
  /\ \A i \in 1..Len(g.steps) : g.steps[i][1] \notin FanStages

\* ApplyTransform has returned 0 after writing the result image.
C21_Witness ==
  /\ et.pc = "Returned"
  /\ et.ret = 0
  /\ g.steps # <<>>
  /\ g.steps[Len(g.steps)] = <<"WriteResultImage", "Resampler">>

\* The calls of a whole ApplyTransform, in order, with or without the loading
\* of the input image and the writing of the result.
ExpectedApply(withLoad, withWrite) ==
  << <<"ConfigureComponents", "ElastixBase">>,
     <<"BeforeAllTransformix", "ElastixBase">>,
     <<"BeforeAllTransformix", "ResampleInterpolator">>,
     <<"BeforeAllTransformix", "Resampler">>,
     <<"BeforeAllTransformix", "Transform">>,
     <<"BeforeAllTransformix", "Configuration">> >>
  \o (IF withLoad THEN << <<"GenerateImageContainer", "MovingImage">> >> ELSE <<>>)
  \o << <<"ReadFromFile", "ResampleInterpolator">>,
        <<"ReadFromFile", "Resampler">>,
        <<"ReadFromFile", "Transform">>,
        <<"TransformPoints", "Transform">> >>
  \o (IF withWrite THEN << <<"WriteResultImage", "Resampler">> >> ELSE <<>>)

-----------------------------------------------------------------------------
\* Properties of the reporting of errors.

\* ElastixMain::Run has returned after an error left ElastixTemplate::Run.
RunRaised == em.pc = "Returned" /\ et.pc = "Raised"

\* The state is one of an ApplyTransform call, whose record names the
\* operation that raised.
InApply == "raisedIn" \in DOMAIN g

-----------------------------------------------------------------------------
\* Properties of the parameters read per level and per axis.

\* C30: each read of SampleRegionSize for axis i, made while the registration
\* is at level L, reads entry L * D + i, D the image dimension; two reads with
\* different (L, i) read different entries; the region size set for an axis is
\* the value declared at that entry, if there is one.
C30_EntryPerLevelAndAxis ==
  /\ \A k \in 1..Len(g.reads) :
       /\ g.reads[k].axis \in 0..(config.dimension - 1)
       /\ g.reads[k].entry = g.reads[k].level * config.dimension + g.reads[k].axis
  /\ \A j, k \in 1..Len(g.reads) :
       <<g.reads[j].level, g.reads[j].axis>> # <<g.reads[k].level, g.reads[k].axis>> =>
         g.reads[j].entry # g.reads[k].entry
  /\ et.pc = "Done" /\ et.useRandomSampleRegion =>
       \A i \in 0..(config.dimension - 1) :
         reg.level * config.dimension + i < Len(config.sizes) =>
           et.set[i + 1] = 100 + reg.level * config.dimension + i

\* At level 1 of a three-dimensional registration the sampler has read the
\* entries 3, 4 and 5, all declared, after reading 0, 1 and 2 at level 0.
C30_Witness ==
  /\ config.dimension = 3
  /\ Len(config.sizes) = 6
  /\ reg.level = 1
  /\ et.pc = "Done"
  /\ Len(g.reads) = 6
  /\ et.set = <<103, 104, 105>>

-----------------------------------------------------------------------------
\* Properties of a creation that fails.

\* The name CreateComponents asks CreateComponent for at instance index i.
NameAt(row, default, i) == IF i = 0 /\ row[0] = NoName THEN default ELSE row[i]

\* The creation of instance k is the first to raise: the instances below k are
\* declared and can be created, instance k is named and cannot.
RaisesAt(row, default, k) ==
  /\ NameAt(row, default, k) # NoName
  /\ ~Creatable(NameAt(row, default, k))
  /\ \A i \in 0..(k - 1) : row[i] # NoName /\ Creatable(row[i])

\* C31: when the creation of instance k of a role raises, CreateComponents
\* leaves errorcode at 1, has read the configuration at the indices 0..k and
\* no further, and returns a container of exactly the k instances created
\* before, instance i from the name at index i.
C31_FailureAtInstance ==
  LET c == g.lastCreate
      row == config[c.key]
  IN c.key # "" =>
       \A k \in DOMAIN row :
         RaisesAt(row, c.default, k) =>
           /\ c.error
           /\ c.errOut = 1
           /\ c.probes = [i \in 1..(k + 1) |-> i - 1]
           /\ c.attempts = k + 1
           /\ c.size = k
           /\ Len(containers[c.key]) = k
           /\ \A i \in 0..(k - 1) : containers[c.key][i + 1].name = row[i]

\* The creation of Metric 2 has raised after Metric 0 and 1 were created, with
\* one more name declared above it.
C31_Witness ==
  /\ g.lastCreate.key = "Metric"
  /\ config["Metric"][0] = "Known"
  /\ config["Metric"][1] = "Known"
  /\ config["Metric"][2] = "Unknown"
  /\ config["Metric"][3] = "Known"
  /\ g.lastCreate.error
  /\ Len(containers["Metric"]) = 2
  /\ em.errorCode = 1

-----------------------------------------------------------------------------
\* Properties of the iteration counter within AfterEachIteration.

\* The k-th AfterEachIteration of the level has returned and nothing has been
\* written since.
IterationCounted ==
  DriverRuns /\ reg.pc \in {"Optimize", "LevelEnd"} /\ g.nAEI >= 1

\* C32: during the k-th AfterEachIteration of a level, from its entry to the
\* return of its last component handler, the iteration counter is k - 1; the
\* snapshot it writes, if configured, is named with k - 1; the counter changes
\* to k in the step that ends the handler, after both fan-outs are complete
\* and with the snapshot written, and in no other step does it grow.
C32_CounterDuringIteration ==
  /\ [](h.fn = "AfterEachIteration" =>
          g.nAEI >= 1 /\ et.iterationCounter = g.nAEI - 1)
  /\ [](IterationCounted =>
          /\ et.iterationCounter = g.nAEI
          /\ env.writeEachIteration => et.currentFile = <<"It", reg.level, g.nAEI - 1>>)
  /\ [][et'.iterationCounter # et.iterationCounter /\ et'.iterationCounter # 0 =>
          /\ h.fn = "AfterEachIteration"
          /\ FanOutsDone
          /\ h'.fn = "None"
          /\ et'.iterationCounter = et.iterationCounter + 1
          /\ et'.iterationCounter = g.nAEI
          /\ env.writeEachIteration => et'.currentFile = <<"It", reg.level, et.iterationCounter>>]_vars

\* The second AfterEachIteration of a level has written its snapshot, named
\* with 1, and the counter is 2.
C32_Witness ==
  /\ IterationCounted
  /\ g.nAEI = 2
  /\ env.writeEachIteration
  /\ et.currentFile = <<"It", reg.level, 1>>
  /\ et.iterationCounter = 2

-----------------------------------------------------------------------------
\* Properties of the order of the calls within a stage.

\* The targets of a fan-out: the Configuration and every component.
AllTargets ==
  {<<"Configuration", 0>>} \cup
    { c \in Roles \X (0..(MaxInst - 1)) : c[2] < Len(containers[c[1]]) }

\* The index in the record of the call of the handler's own <stage>Base()
\* that opened the stage to which call i belongs.
OwnBefore(t, i) == CHOOSE o \in 1..i : t[o][2] = "Own" /\ \A j \in (o + 1)..i : t[j][2] # "Own"

\* C33: in the record of the calls of a run, every stage begins with the
\* handler's own <stage>Base(); the <stage>Base() calls of the Configuration
\* and the components follow it directly; and a <stage>() call of a component
\* comes only after the <stage>Base() of the same stage has been called on the
\* Configuration and on every component.
C33_BaseBeforeHandlers ==
  LET t == g.trace
  IN \A i \in 1..Len(t) :
       /\ t[i][2] \in {"Own", "FanBase", "Fan"}
       /\ t[i][2] = "Own" => i = 1 \/ t[i - 1][2] = "Fan"
       /\ t[i][2] = "FanBase" =>
            i > 1 /\ t[i - 1][2] \in {"Own", "FanBase"} /\ t[i - 1][1] = t[i][1]
       /\ t[i][2] = "Fan" =>
            /\ i > 1 /\ t[i - 1][2] \in {"FanBase", "Fan"} /\ t[i - 1][1] = t[i][1]
            /\ \A c \in AllTargets :
                 \E j \in (OwnBefore(t, i) + 1)..(i - 1) :
                   t[j][1] = t[i][1] /\ t[j][2] = "FanBase" /\ <<t[j][3], t[j][4]>> = c

\* The <stage>() handlers of AfterEachIteration are being called in a run
\* with two transforms.
C33_Witness ==
  /\ Len(g.trace) > 0
  /\ g.trace[Len(g.trace)][1] = "AfterEachIteration"
  /\ g.trace[Len(g.trace)][2] = "Fan"
  /\ g.trace[Len(g.trace)][3] = "Transform"
  /\ g.trace[Len(g.trace)][4] = 1

-----------------------------------------------------------------------------
\* Properties of the value of BeforeAll.

\* Bit k of the value v is set.
HasBit(v, k) == (v \div (2 ^ k)) % 2 = 1

\* The value has exactly the bits set in some value of the set.
IsOrOf(v, S) == \A k \in 0..(MaxRet + 1) : HasBit(v, k) <=> \E x \in S : HasBit(x, k)

\* BeforeAll has returned to Run.
BeforeAllReturned == g.stage = "BeforeAll" /\ h.fn = "None" /\ g.ranElastix

\* C34: while BeforeAll runs its returndummy is the bitwise OR of the values
\* the handlers called so far have returned; when it returns, whatever they
\* returned, BeforeAllBase and BeforeAll have been called on the Configuration
\* and on every component, and the value returned is the bitwise OR of all the
\* values returned: 0 exactly when every handler returned 0.
C34_BeforeAllAggregates ==
  /\ h.fn = "BeforeAll" /\ h.phase # "Raised" => IsOrOf(h.ret, g.rets)
  /\ BeforeAllReturned =>
       /\ g.cnt = 2 * FanTargets
       /\ CoversAll(g.calls)
       /\ IsOrOf(et.dummy, g.rets)
       /\ et.dummy = 0 <=> g.rets = {0}

\* BeforeAll has returned 3 after handlers returned 0, 1 and 2, all handlers
\* having been called.
C34_Witness ==
  /\ BeforeAllReturned
  /\ g.rets = {0, 1, 2}
  /\ et.dummy = 3
  /\ g.cnt = 2 * FanTargets

-----------------------------------------------------------------------------
\* Properties of Run called again on the same ElastixMain.

\* The parameter file declares, for the fixed or for the moving image, another
\* dimension than the header of the image file gives.
DeclaredDimensionMismatch ==
  /\ ~env.library
  /\ \/ env.fixedHeader.ok /\ env.parFixedDim.found
        /\ env.parFixedDim.value # env.fixedHeader.dim
     \/ env.movingHeader.ok /\ env.parMovingDim.found
        /\ env.parMovingDim.value # env.movingHeader.dim

\* C35: InitDBIndex of a later call of Run on the same ElastixMain, with the
\* configuration and the inputs unchanged, succeeds or fails as it did in the
\* first call.
C35_SameOutcomeAgain ==
  g.runs >= 2 /\ g.initDB # "none" => g.initDB = g.first.initDB

\* The outcome of InitDBIndex is repeated by every later call unless the
\* parameter file declares another dimension than an image header gives.
C35_SameOutcomeWithoutMismatch ==
  g.runs >= 2 /\ g.initDB # "none" /\ ~DeclaredDimensionMismatch =>
    g.initDB = g.first.initDB

\* InitDBIndex has failed again in a second call of Run, the image file
\* header giving dimension 0.
C35_Witness ==
  /\ g.runs = 2
  /\ g.initDB = "failed"
  /\ g.first.initDB = "failed"
  /\ ~env.library
  /\ env.fixedHeader = [ok |-> TRUE, dim |-> 0]

-----------------------------------------------------------------------------
\* Properties of the final transform ElastixMain holds.

\* C36: when a call of Run has returned, ElastixMain holds a final transform
\* only if the call returned 0.
C36_FinalTransformOnlyAfterSuccess ==
  em.pc = "Returned" /\ em.finalTransform # NoLabel => em.ret = 0

\* A call of Run that returns after ElastixTemplate::Run was called holds a
\* final transform only if it returned 0.
C36_AfterElastixRun ==
  em.pc = "Returned" /\ g.ranElastix /\ em.finalTransform # NoLabel => em.ret = 0

\* A second call of Run, in which a handler raised, has returned 1 and left no
\* final transform, the first call having produced one.
C36_Witness ==
  /\ g.runs = 2
  /\ g.first.finalTransform # NoLabel
  /\ g.ranElastix
  /\ em.pc = "Returned"
  /\ em.ret = 1
  /\ em.finalTransform = NoLabel

-----------------------------------------------------------------------------
\* Properties of the names of the parameter files of one run.

DigitChar == <<"0", "1", "2", "3", "4", "5", "6", "7", "8", "9">>

\* The characters of a number written in decimal.
DigitText(d) == [i \in 1..Len(d) |-> DigitChar[d[i] + 1]]

\* The text of a file name: its literal parts and the characters of its
\* numbers, in the order in which they were streamed.
TextOf(w) ==
  CASE w.kind = "It" ->
         <<w.name[1], w.name[2]>> \o DigitText(w.name[3]) \o <<w.name[4]>>
           \o DigitText(w.name[5]) \o <<w.name[6]>> \o DigitText(w.name[7]) \o <<w.name[8]>>
    [] w.kind = "R" ->
         <<w.name[1], w.name[2]>> \o DigitText(w.name[3]) \o <<w.name[4]>>
           \o DigitText(w.name[5]) \o <<w.name[6]>>
    [] OTHER ->
         <<w.name[1], w.name[2]>> \o DigitText(w.name[3]) \o <<w.name[4]>>

\* C37: with iteration counters below 10^7, no two parameter files written in
\* one run have the same name: the final file, the files of the resolution
\* levels and the files of the iterations all differ.
C37_NamesDistinct ==
  et.iterationCounter <= 10^7 =>
    \A i, j \in 1..Len(et.written) :
      i < j => TextOf(et.written[i]) # TextOf(et.written[j])

\* A run wrote the file of iteration 0 of two levels, the files of both
\* levels and the final file.
C37_Witness ==
  /\ et.pc = "AfterRegistration"
  /\ Len(et.written) >= 6
  /\ \E i, j \in 1..Len(et.written) :
       /\ et.written[i].kind = "It" /\ et.written[j].kind = "It"
       /\ et.written[i].name[7] = et.written[j].name[7]
       /\ et.written[i].name[5] # et.written[j].name[5]
  /\ \E i \in 1..Len(et.written) : et.written[i].kind = "R"

-----------------------------------------------------------------------------
\* Properties of the moments at which the parameter files are written.

FinalFile == <<"Final", 0, 0>>

\* C38: a run that returns 0 has written the final parameter file exactly
\* once; it is written when AfterRegistration is entered, with every
\* AfterEachResolution over and before any handler of the AfterRegistration
\* stage is invoked. The file of a resolution level is written only if
\* WriteTransformParametersEachResolution, in the step that ends
\* AfterEachResolution of that level, after both fan-outs.
C38_FinalFileOnce ==
  /\ [](g.finals <= 1)
  /\ [](RunSucceeded => g.finals = 1 /\ et.currentFile = FinalFile)
  /\ [](h.fn = "AfterRegistration" => g.finals = 1 /\ et.currentFile = FinalFile)
  /\ [](h.fn \notin {"None", "AfterRegistration"} => g.finals = 0)
  /\ [][g'.finals > g.finals =>
          /\ h.fn = "None" /\ h'.fn = "AfterRegistration"
          /\ g'.calls = <<>>
          /\ reg.todo = <<>>
          /\ g.nBER >= 1 /\ g.nAER = g.nBER
          /\ et'.currentFile = FinalFile]_vars
  /\ [][et'.currentFile # et.currentFile /\ et'.currentFile[1] = "R" =>
          /\ env.writeEachResolution
          /\ h.fn = "AfterEachResolution" /\ FanOutsDone
          /\ et'.currentFile = <<"R", h.level, 0>>]_vars
  /\ [][~env.writeEachResolution /\ h.fn = "AfterEachResolution" =>
          et'.currentFile = et.currentFile]_vars

\* A run with the file of each level and two levels has returned 0.
C38_Witness ==
  /\ RunSucceeded
  /\ env.writeEachResolution
  /\ g.nAER = 2
  /\ g.finals = 1
  /\ et.currentFile = FinalFile

-----------------------------------------------------------------------------
\* Properties of an ApplyTransform whose validation fails.

\* The operations ApplyTransform has called.
OpsCalled == { g.steps[i][1] : i \in 1..Len(g.steps) }

\* C39: once the value of BeforeAllTransformix is nonzero, ApplyTransform
\* returns that value: the input image is not loaded, and no ReadFromFile,
\* TransformPoints or WriteResultImage is called; and ApplyTransform returns a
\* nonzero value in no other case.
C39_ValidationFailureReturns ==
  /\ et.dummy # 0 =>
       /\ et.pc \in {"Validate", "Raised", "Returned"}
       /\ et.pc = "Raised" => g.raisedIn = "BeforeAllTransformix"
       /\ et.pc = "Returned" => et.ret = et.dummy /\ ValidationsDone = Len(BeforeAllTransformixOrder)
       /\ OpsCalled \subseteq {"ConfigureComponents", "BeforeAllTransformix"}
       /\ et.images["MovingImage"] # "loaded"
  /\ et.pc = "Returned" /\ et.ret # 0 => et.dummy # 0

\* ApplyTransform has returned the nonzero value of a validation, with an
\* input image named and not loaded.
C39_Witness ==
  /\ et.pc = "Returned"
  /\ et.ret = et.dummy
  /\ et.ret > 1
  /\ et.files > 0
  /\ et.images["MovingImage"] = "absent"
  /\ OpsCalled = {"ConfigureComponents", "BeforeAllTransformix"}

-----------------------------------------------------------------------------
\* Properties of EnterCommandLineArguments with a list of parameter maps.

\* The call has ended, by returning or otherwise.
EnterEnded == "configurations" \in DOMAIN em /\ em.pc \in {"Returned", "Crashed"}

\* One configuration object per map, in the order of the maps.
OnePerMap ==
  /\ Len(em.configurations) = Len(env.inputMaps)
  /\ \A k \in 1..Len(env.inputMaps) :
       /\ em.configurations[k].state = "object"
       /\ em.configurations[k].map = env.inputMaps[k].id
       /\ em.configurations[k].initialized = env.inputMaps[k].accepted

\* C40: for every list of n >= 0 maps the call returns with n configuration
\* objects, one per map in order, and the index of the selected configuration
\* is inside the list.
C40_IndexInsideList ==
  EnterEnded =>
    /\ em.pc = "Returned"
    /\ OnePerMap
    /\ InsideVector(em.index, Len(em.configurations))

\* C40 for the lists of one map or more: the call returns with one
\* configuration object per map in order, the index selected is that of the
\* last one, and the active configuration is the last object; with no map
\* the list is left empty.
C40_NonEmptyLists ==
  EnterEnded =>
    /\ OnePerMap
    /\ Len(env.inputMaps) >= 1 =>
         /\ em.pc = "Returned"
         /\ em.index = Len(env.inputMaps) - 1
         /\ InsideVector(em.index, Len(em.configurations))
         /\ em.configuration = em.configurations[Len(em.configurations)]
         /\ em.configuration.map = env.inputMaps[Len(env.inputMaps)].id

\* The call has returned for three maps given to an ElastixMain that had two
\* configurations, the second map not accepted.
C40_Witness ==
  /\ EnterEnded
  /\ em.pc = "Returned"
  /\ Len(env.inputMaps) = 3
  /\ em.errors = <<1>>
  /\ em.index = 2
  /\ em.configuration.map = env.inputMaps[3].id

====
